---- MODULE Spec2Model ----
(***************************************************************************)
(* Entity storage, journaling and transactions of plexus.                  *)
(*                                                                         *)
(*   Spec         a storage backend (slot map or hash map) that is first   *)
(*                used unjournaled, then wrapped in a Journaled, mutated   *)
(*                through the journal and finally committed or aborted.    *)
(*   SpecReplace  a vertex storage held by a target, mutated through       *)
(*                Replace<T, VertexMutation<Immediate>>.                   *)
(*   SpecStage    the staging operations of a Journaled, one at a time,    *)
(*                with the vertex operations of Transacted mode.           *)
(*   SpecSlot     a slot map used on its own: inserts and removes.         *)
(*   SpecSynthesize  the key synthesis state of a slot map: state() and    *)
(*                synthesize() up to the exhaustion of the keys.           *)
(*   SpecRekey    a journal over a slot map whose caller also holds the    *)
(*                keys of an earlier, aborted journal, up to the commit.   *)
(*   SpecCore     a Core: fuse of the four storages and unfuse.            *)
(*   SpecFace     the operations of a face view on a graph of polygons:    *)
(*                cache snapshot, Mutation::replace, replay and commit.    *)
(*   SpecVertexRemove  vertex::remove over a VertexRemoveCache.            *)
(*   SpecCirculator  an ArcCirculator over a storage of arcs; with a       *)
(*                caller that goes on calling next, SpecCirculatorFair.    *)
(*   SpecDistance  InteriorPath::distance on a path, for any selectors.    *)
(*   SpecTriangulate  FaceView::triangulate on the faces of a graph; with  *)
(*                a loop that runs on, SpecTriangulateFair.                *)
(*   SpecIndex    a HashIndexer and an LruIndexer that index the vertices  *)
(*                of one stream through index_vertices_with.               *)
(***************************************************************************)
EXTENDS Integers, Sequences, FiniteSets, TLC

\* ------------------------------------------------------------------ bounds
\* Largest number of slots the unjournaled phase allocates.
MaxSlots == 1
\* Largest slot version the unjournaled phase produces.
MaxVersion == 2
\* Largest number of entries staged in one journal.
MaxLog == 3
\* Entities are 1..MaxEntity.
MaxEntity == 2
\* Arc keys are 1..MaxArc.
MaxArc == 1
\* Largest number of vertices of a mutated vertex storage.
MaxVertices == 2
\* Keys of the hash backend are 1..MaxHashKey.
MaxHashKey == 1
\* u32::MAX, scaled.
U32Max == 15
\* Largest number of entries staged when single operations are examined.
MaxStaged == 2
\* Largest number of slots of a slot map used on its own.
SlotLen == 3
\* Largest slot version of a slot map used on its own.
SlotVersion == 5

\* Option::None (entities and arc keys are positive)
None == 0

Entities == 1..MaxEntity
HashKeys == 1..MaxHashKey

Max(a, b) == IF a >= b THEN a ELSE b

\* ------------------------------------------------------ slot map (backend)
\* A slot of HopSlotMap: occupied exactly when its version is odd.
Slot(ver, val) == [version |-> ver, value |-> val]

Occupied(s) == s.version % 2 = 1

\* HopSlotMap::default(): no slot besides the sentinel, capacity 0.
SlotNew == [kind |-> "slot", slots |-> <<>>, cap |-> 0, map |-> [k \in HashKeys |-> None]]

\* HashMap::default()
HashNew == [kind |-> "hash", slots |-> <<>>, cap |-> 0, map |-> [k \in HashKeys |-> None]]

\* Capacity after a push into a full slot vector (amortized doubling, at
\* least four elements, one of them the sentinel).
VecGrow(cap) == Max(2 * (cap + 1), 4) - 1

\* Get::get of the backend
BGet(m, k) ==
    IF m.kind = "slot"
    THEN IF k[1] \in 1..Len(m.slots) /\ m.slots[k[1]].version = k[2]
         THEN m.slots[k[1]].value
         ELSE None
    ELSE m.map[k]

\* Keys live in the backend, in iteration order.
BKeys(m) ==
    IF m.kind = "slot"
    THEN LET live == SelectSeq([i \in 1..Len(m.slots) |-> i], LAMBDA i : Occupied(m.slots[i]))
         IN  [n \in 1..Len(live) |-> <<live[n], m.slots[live[n]].version>>]
    ELSE SelectSeq([i \in 1..MaxHashKey |-> i], LAMBDA k : m.map[k] # None)

\* Enumerate::iter of the backend
BIter(m) == LET ks == BKeys(m) IN [n \in 1..Len(ks) |-> <<ks[n], BGet(m, ks[n])>>]

\* Enumerate::len of the backend
BLen(m) == Len(BKeys(m))

\* The (key, entity) pairs of the backend.
BContent(m) == {BIter(m)[n] : n \in 1..Len(BKeys(m))}

\* Write through the reference returned by Get::get_mut of the backend.
BSet(m, k, e) ==
    IF m.kind = "slot"
    THEN [m EXCEPT !.slots[k[1]].value = e]
    ELSE [m EXCEPT !.map[k] = e]

\* Remove::remove of the backend
BRemove(m, k) ==
    IF BGet(m, k) = None THEN m
    ELSE IF m.kind = "slot"
         THEN [m EXCEPT !.slots[k[1]] = Slot(m.slots[k[1]].version + 1, None)]
         ELSE [m EXCEPT !.map[k] = None]

\* An insert that gives a reused slot the version it had when last occupied.
BInsertSameVersion(m, e) ==
    LET vacant == {i \in 1..Len(m.slots) : ~Occupied(m.slots[i])}
    IN  IF vacant = {}
        THEN {[storage |-> [m EXCEPT !.slots = Append(m.slots, Slot(1, e))],
               key |-> <<Len(m.slots) + 1, 1>>]}
        ELSE {[storage |-> [m EXCEPT !.slots[i] = Slot(m.slots[i].version - 1, e)],
               key |-> <<i, m.slots[i].version - 1>>] : i \in vacant}

\* Insert::insert of the slot backend: the possible (storage, key) results.
\* A vacant slot is reused with the next odd version; without a vacant slot
\* a slot of version 1 is pushed.
BInsert(m, e) ==
    LET vacant == {i \in 1..Len(m.slots) : ~Occupied(m.slots[i])}
    IN  IF vacant = {}
        THEN {[storage |-> [m EXCEPT !.slots = Append(m.slots, Slot(1, e)),
                                     !.cap = IF Len(m.slots) = m.cap
                                             THEN VecGrow(m.cap) ELSE m.cap],
               key |-> <<Len(m.slots) + 1, 1>>]}
        ELSE {[storage |-> [m EXCEPT !.slots[i] = Slot(m.slots[i].version + 1, e)],
               key |-> <<i, m.slots[i].version + 1>>] : i \in vacant}

\* InsertWithKey::insert_with_key of the hash backend
BInsertWithKey(m, k, e) == [m EXCEPT !.map[k] = e]

\* --------------------------------------------------------- key synthesis
\* A state whose floor is the first slot instead of one above the capacity.
StateAtFirstSlot(m) ==
    IF m.kind = "slot"
    THEN [floor |-> 1, index |-> 1, version |-> 1]
    ELSE [floor |-> 0, index |-> 0, version |-> 0]

\* JournalState::state of the slot backend
StateOf(m) ==
    IF m.kind = "slot"
    THEN [floor |-> m.cap + 1, index |-> m.cap + 1, version |-> 1]
    ELSE [floor |-> 0, index |-> 0, version |-> 0]

\* state() panics: capacity + 1 does not fit.
StatePanics(m) == m.kind = "slot" /\ m.cap + 1 > U32Max

\* SyntheticKey::synthesize: the key returned
SynthesizeKey(s) == <<s.index, s.version>>

\* A synthesize that never panics.
SynthesizeNeverPanics(s) == FALSE

\* SyntheticKey::synthesize panics: the version cannot be increased by 2.
SynthesizePanics(s) == s.version = 0 \/ (s.index = U32Max /\ s.version + 2 > U32Max)

\* A synthesize that increases the version by 1 when the index overflows.
SynthesizeNextVersion(s) ==
    IF s.index = U32Max
    THEN [s EXCEPT !.version = s.version + 1, !.index = s.floor]
    ELSE [s EXCEPT !.index = s.index + 1]

\* A synthesize that starts again at the floor with the version it had.
SynthesizeNextSameVersion(s) ==
    IF s.index = U32Max
    THEN [s EXCEPT !.index = s.floor]
    ELSE [s EXCEPT !.index = s.index + 1]

\* A synthesize that does not advance the state.
SynthesizeStuck(s) == s

\* SyntheticKey::synthesize: the state afterwards
SynthesizeNext(s) ==
    IF s.index = U32Max
    THEN [s EXCEPT !.version = s.version + 2, !.index = s.floor]
    ELSE [s EXCEPT !.index = s.index + 1]

\* ------------------------------------------------------------- the journal
Insert(e) == [op |-> "Insert", e |-> e]
Remove == [op |-> "Remove", e |-> None]
Write(e) == [op |-> "Write", e |-> e]

\* Mutation::as_entity
AsEntity(mu) == IF mu.op = "Remove" THEN None ELSE mu.e

Entry(k, mu) == [key |-> k, mutation |-> mu]

\* LinkedMultiMap::get_all: the mutations staged for a key, oldest first.
GetAll(l, k) ==
    LET es == SelectSeq(l, LAMBDA en : en.key = k)
    IN  [n \in 1..Len(es) |-> es[n].mutation]

\* LinkedMultiMap::keys: the keys of the log in order of first insertion.
RECURSIVE LogKeysFrom(_, _, _)
LogKeysFrom(l, i, acc) ==
    IF i > Len(l) THEN acc
    ELSE IF \E n \in 1..Len(acc) : acc[n] = l[i].key
         THEN LogKeysFrom(l, i + 1, acc)
         ELSE LogKeysFrom(l, i + 1, Append(acc, l[i].key))

LogKeys(l) == LogKeysFrom(l, 1, <<>>)

LogKeySet(l) == {l[i].key : i \in 1..Len(l)}

\* The first mutation staged for a key: next() in place of next_back().
NextFront(l, k) == GetAll(l, k)[1]

\* The last mutation staged for a key of the log (entry.next_back()).
NextBack(l, k) == LET es == GetAll(l, k) IN es[Len(es)]

\* A read that forwards to the storage field instead of the journaled view.
JGetForwarded(m, l, k) == BGet(m, k)

\* Journaled::get
JGet(m, l, k) ==
    IF k \in LogKeySet(l) THEN AsEntity(NextBack(l, k)) ELSE BGet(m, k)

\* iter() without the filter that suppresses backend entries named in the log.
JIterUnfiltered(m, l) ==
    LET ks == LogKeys(l)
        staged == SelectSeq(ks, LAMBDA k : AsEntity(NextBack(l, k)) # None)
    IN  BIter(m) \o [n \in 1..Len(staged) |-> <<staged[n], AsEntity(NextBack(l, staged[n]))>>]

\* Journaled::iter
JIter(m, l) ==
    LET ks == LogKeys(l)
        fromStorage == SelectSeq(BIter(m), LAMBDA p : p[1] \notin LogKeySet(l))
        staged == SelectSeq(ks, LAMBDA k : AsEntity(NextBack(l, k)) # None)
    IN  fromStorage \o [n \in 1..Len(staged) |-> <<staged[n], AsEntity(NextBack(l, staged[n]))>>]

\* Journaled::keys
JKeys(m, l) == LET it == JIter(m, l) IN [n \in 1..Len(it) |-> it[n][1]]

\* The most recent mutation of an entry that is not a Write, if any.
LastNonWrite(es) ==
    LET idx == {n \in 1..Len(es) : es[n].op # "Write"}
    IN  IF idx = {} THEN "None"
        ELSE es[CHOOSE n \in idx : \A o \in idx : o <= n].op

\* Journaled::len (n + p - q, before any conversion to usize)
JLen(m, l) ==
    LET n == BLen(m)
        p == Cardinality({k \in LogKeySet(l) : LastNonWrite(GetAll(l, k)) = "Insert"})
        q == Cardinality({k \in LogKeySet(l) : LastNonWrite(GetAll(l, k)) = "Remove"})
    IN  n + p - q

\* Journaled::commit_and_rekey from the i-th key of the log on: the possible
\* (storage, rekeying) results.
RECURSIVE CommitFrom(_, _, _, _, _)
CommitFrom(m, rk, l, ks, i) ==
    IF i > Len(ks) THEN {[storage |-> m, rekeying |-> rk]}
    ELSE LET key == ks[i]
             mu == NextBack(l, key)
         IN  IF mu.op \in {"Insert", "Write"}
             THEN IF BGet(m, key) # None
                  THEN CommitFrom(BSet(m, key, mu.e), rk \cup {<<key, key>>}, l, ks, i + 1)
                  ELSE UNION {CommitFrom(o.storage, rk \cup {<<key, o.key>>}, l, ks, i + 1) :
                                  o \in BInsert(m, mu.e)}
             ELSE CommitFrom(BRemove(m, key), rk \cup {<<key, key>>}, l, ks, i + 1)

\* Journaled::commit_and_rekey
CommitAndRekey(m, l) == CommitFrom(m, {}, l, LogKeys(l), 1)

\* ------------------------------------------------------ vertex mutation
\* A vertex is the entity 1 + arc, where arc is its leading arc key, or 0
\* (None) when it has none: Vertex::new gives 1.
Vertex(arc) == arc + 1

\* Vertex::arc
ArcOf(v) == v - 1

ArcKeys == 1..MaxArc

\* Option<(&mut T, M)> of a Replace: None, or the storage of the mutation
NoMutation == [some |-> FALSE, storage |-> SlotNew]

SomeMutation(m) == [some |-> TRUE, storage |-> m]

\* Result<T, GraphError> of an operation: error is "Ok" or the error.
Returned(error, value) == [error |-> error, value |-> value]

\* A check that returns at the first vertex instead of at the first failure.
ConsistentFirst(m) == BLen(m) = 0 \/ ArcOf(BIter(m)[1][2]) # None

\* The check of VertexMutation::commit: all vertices have a leading arc.
Consistent(m) == \A n \in 1..BLen(m) : ArcOf(BIter(m)[n][2]) # None

\* --------------------------------------------------------------- Core
MaxStorage == 2

\* The storages that may be fused into a core, and the unit value `()` of a
\* field that is unfused.
Storages == 1..MaxStorage

Unfused == 0

\* Core::empty
CoreEmpty == [vertices |-> Unfused, arcs |-> Unfused, edges |-> Unfused, faces |-> Unfused]

\* Fuse<V, Vertex<G>> for Core<G, (), A, E, F>
FuseVertices(c, vertices) ==
    [vertices |-> vertices, arcs |-> c.arcs, edges |-> c.edges, faces |-> c.faces]

\* Fuse<A, Arc<G>> for Core<G, V, (), E, F>
FuseArcs(c, arcs) ==
    [vertices |-> c.vertices, arcs |-> arcs, edges |-> c.edges, faces |-> c.faces]

\* Fuse<E, Edge<G>> for Core<G, V, A, (), F>
FuseEdges(c, edges) ==
    [vertices |-> c.vertices, arcs |-> c.arcs, edges |-> edges, faces |-> c.faces]

\* Fuse<F, Face<G>> for Core<G, V, A, E, ()>
FuseFaces(c, faces) ==
    [vertices |-> c.vertices, arcs |-> c.arcs, edges |-> c.edges, faces |-> faces]

\* An unfuse that returns the arcs before the vertices.
UnfuseArcsFirst(c) == <<c.arcs, c.vertices, c.edges, c.faces>>

\* Core::unfuse
Unfuse(c) == <<c.vertices, c.arcs, c.edges, c.faces>>

\* AsStorage<Vertex<G>>, <Arc<G>>, <Edge<G>> and <Face<G>> for Core
CoreAsStorage(c) ==
    [vertices |-> c.vertices, arcs |-> c.arcs, edges |-> c.edges, faces |-> c.faces]

\* AsStorage for Mutation, of the core that to_ref_core returns: the fields
\* 0, 1, 2 and 3 of the unfused tuple.
MutationAsStorage(c) ==
    [vertices |-> Unfuse(c)[1], arcs |-> Unfuse(c)[2],
     edges |-> Unfuse(c)[3], faces |-> Unfuse(c)[4]]

\* -------------------------------------------------------------- graphs
MaxArity == 5
MaxGraphVertices == 6
MaxFaces == 4

Min(a, b) == IF a <= b THEN a ELSE b

\* A graph holds vertices 1..vertices, arcs as pairs of vertices, and faces
\* as the sequences of the vertices of their perimeters, which start at the
\* source of the leading arc of the face.
GraphDefault == [vertices |-> 0, arcs |-> {}, faces |-> {}, paths |-> {}]

\* ArcView::opposite_arc
Opposite(ab) == <<ab[2], ab[1]>>

\* The arcs of the perimeter of a face, in next order.
FaceArcs(p) == {<<p[i], p[(i % Len(p)) + 1]>> : i \in 1..Len(p)}

\* The arcs of the edges of the perimeter of a face.
FaceEdges(p) == FaceArcs(p) \cup {Opposite(ab) : ab \in FaceArcs(p)}

\* ArcView::face: the faces whose perimeter holds the arc (none or one).
ArcFace(g, ab) == {p \in g.faces : ab \in FaceArcs(p)}

\* The face of a polygon over the vertices first+1..first+n.
PolygonFace(first, n) == [i \in 1..n |-> first + i]

\* A graph of one polygon, as from_raw_buffers_with_arity builds it.
Polygon(n) ==
    [vertices |-> n, arcs |-> FaceEdges(PolygonFace(0, n)), faces |-> {PolygonFace(0, n)},
     paths |-> {}]

\* A graph of two polygons that share no vertex.
TwoPolygons(n, m) ==
    [vertices |-> n + m,
     arcs |-> FaceEdges(PolygonFace(0, n)) \cup FaceEdges(PolygonFace(n, m)),
     faces |-> {PolygonFace(0, n), PolygonFace(n, m)},
     paths |-> {}]

\* The graphs an operation on a face starts from.
InitialGraphs ==
    {Polygon(n) : n \in 3..MaxArity}
        \cup {TwoPolygons(3, m) : m \in 3..(MaxGraphVertices - 3)}

\* self.vertices().nth(index) of a face: the selected vertex, or None
VertexAt(p, index) == IF index < Len(p) THEN p[index + 1] ELSE None

\* InteriorPath::distance with index selectors
Distance(p, source, destination) ==
    IF source >= Len(p) \/ destination >= Len(p)
    THEN [error |-> "TopologyNotFound", value |-> None]
    ELSE LET difference == IF source >= destination THEN source - destination
                           ELSE destination - source
         IN  [error |-> "Ok", value |-> Min(difference, Len(p) - difference)]

\* The vertices of a perimeter from position i forwards to position j.
CycSlice(p, i, j) ==
    [k \in 1..(((j - i) % Len(p)) + 1) |-> p[((i + k - 2) % Len(p)) + 1]]

\* The position of a vertex in a perimeter.
Pos(p, v) == CHOOSE i \in 1..Len(p) : p[i] = v

\* What a cache snapshot plans: the faces to remove, the number of vertices
\* and the faces to insert, and the arc the operation returns.
Plan(remove, vertices, faces, arc) ==
    [remove |-> remove, vertices |-> vertices, faces |-> faces, arc |-> arc]

NoPlan == Plan({}, 0, {}, <<>>)

Snapshot(error, plan) == [error |-> error, plan |-> plan]

\* FaceSplitCache::snapshot: the source and the destination are vertices of
\* the face that are not neighbours; the face is replaced by the two faces
\* on the sides of a new edge from the source to the destination.
FaceSplitSnapshot(g, f, source, destination) ==
    IF source \notin {f[i] : i \in 1..Len(f)} \/ destination \notin {f[i] : i \in 1..Len(f)}
    THEN Snapshot("TopologyNotFound", NoPlan)
    ELSE IF Distance(f, Pos(f, source) - 1, Pos(f, destination) - 1).value <= 1
    THEN Snapshot("TopologyMalformed", NoPlan)
    ELSE Snapshot("Ok",
            Plan({f}, 0,
                 {CycSlice(f, Pos(f, source), Pos(f, destination)),
                  CycSlice(f, Pos(f, destination), Pos(f, source))},
                 <<source, destination>>))

\* FaceBridgeCache::snapshot: the destination is a face of the arity of the
\* source; both are replaced by quadrilaterals along their perimeters.
FaceBridgeSnapshot(g, f, destination) ==
    IF destination \notin g.faces
    THEN Snapshot("TopologyNotFound", NoPlan)
    ELSE IF Len(destination) # Len(f)
    THEN Snapshot("ArityNonUniform", NoPlan)
    ELSE LET n == Len(f)
             r == [i \in 1..n |-> destination[n + 1 - i]]
         IN  Snapshot("Ok",
                Plan({f, destination}, 0,
                     {<<f[(i % n) + 1], f[i], r[i], r[(i % n) + 1]>> : i \in 1..n},
                     <<>>))

\* FacePokeCache::snapshot: the face is replaced by triangles from its arcs
\* to a new vertex.
FacePokeSnapshot(g, f) ==
    Snapshot("Ok",
        Plan({f}, 1, {<<ab[1], ab[2], g.vertices + 1>> : ab \in FaceArcs(f)}, <<>>))

\* FaceExtrudeCache::snapshot: the face is replaced by a face over new
\* vertices and quadrilaterals that connect it to the old perimeter.
FaceExtrudeSnapshot(g, f) ==
    LET n == Len(f)
        t == [i \in 1..n |-> g.vertices + i]
    IN  Snapshot("Ok",
            Plan({f}, n,
                 {t} \cup {<<f[i], f[(i % n) + 1], t[(i % n) + 1], t[i]>> : i \in 1..n},
                 <<>>))

\* FaceRemoveCache::snapshot: the face is removed, its arcs stay.
FaceRemoveSnapshot(g, f) == Snapshot("Ok", Plan({f}, 0, {}, <<f[1], f[2]>>))

\* The interior paths without a face after a plan: a face that is removed and
\* not replaced leaves its path, and a path lasts until a new face takes one
\* of its arcs.
PlanPaths(g, plan) ==
    {p \in g.paths \cup (IF plan.faces = {} THEN plan.remove ELSE {}) :
        \A q \in plan.faces : FaceArcs(p) \cap FaceArcs(q) = {}}

\* face::split_with_cache and the like: the mutation replays the plan of the
\* cache.
ApplyPlan(g, plan) ==
    [vertices |-> g.vertices + plan.vertices,
     arcs |-> g.arcs \cup UNION {FaceEdges(p) : p \in plan.faces},
     faces |-> (g.faces \ plan.remove) \cup plan.faces,
     paths |-> PlanPaths(g, plan)]

\* InteriorPath::arity of the path of an arc: the arcs of the face or of the
\* faceless path the arc is part of.
PathArity(g, ab) ==
    LET rings == {p \in g.faces \cup g.paths : ab \in FaceArcs(p)}
    IN  IF rings = {} THEN 0 ELSE Len(CHOOSE p \in rings : TRUE)

\* A cache: the operation it was taken for, its plan, the graph it was taken
\* from, and whether the mutation has replayed it.
Cache(op, plan, of, replayed) ==
    [op |-> op, plan |-> plan, of |-> of, replayed |-> replayed]

NoCache == Cache("none", NoPlan, GraphDefault, FALSE)

\* ---------------------------------------------------------------------------
\* ArcCirculator: graph/view/face.rs
\* ---------------------------------------------------------------------------

\* The keys of the arcs a circulator may meet.
MaxPathArc == 3

PathArcs == 1..MaxPathArc

\* Of a key in a storage of arcs: there is no arc of that key.
Missing == 0 - 1

\* A storage of arcs, as far as a circulator reads it: of every key whether
\* an arc is there and, if so, its next (None for an arc without).
ArcStorages == [PathArcs -> {Missing, None} \cup PathArcs]

\* storage.get(&arc).and_then(|arc| arc.next)
ArcNext(arcs, arc) == IF arcs[arc] = Missing THEN None ELSE arcs[arc]

\* ArcCirculator { storage, arc, breadcrumb }
Circulator(arc, breadcrumb) == [arc |-> arc, breadcrumb |-> breadcrumb]

NoCirculator == Circulator(None, None)

\* ---------------------------------------------------------------------------
\* Indexers: index.rs
\* ---------------------------------------------------------------------------

\* The keys of the vertices of a stream.
MaxIndexKey == 3

\* The vertices of a stream.
MaxInput == 4

\* The capacities an LruIndexer is created with.
MaxCapacity == 3

IndexKeys == 1..MaxIndexKey

\* HashIndexer::new
HashIndexerNew == [hash |-> {}, n |-> 0]

\* What index returns, and the indexer after the call.
Indexed(indexer, index, vertex) == [indexer |-> indexer, index |-> index, vertex |-> vertex]

\* LruIndexer::with_capacity
LruWithCapacity(capacity) == [lru |-> <<>>, capacity |-> Max(1, capacity), n |-> 0]

\* LruIndexer::find: the position (from 0) and the index of the first entry
\* of the key, or None.
LruFind(indexer, key) ==
    IF \E i \in 1..Len(indexer.lru) : indexer.lru[i][1] = key
    THEN LET i == CHOOSE i \in 1..Len(indexer.lru) :
                    /\ indexer.lru[i][1] = key
                    /\ \A j \in 1..(i - 1) : indexer.lru[j][1] # key
         IN  <<i - 1, indexer.lru[i][2]>>
    ELSE <<>>

\* Vec::remove(index): the vector without the element at a position from 0.
VecRemove(v, index) == [i \in 1..(Len(v) - 1) |-> IF i <= index THEN v[i] ELSE v[i + 1]]

\* The run of index_vertices_with over an indexer: the results of its calls
\* of index and the two buffers it fills.
Buffers(results, indices, vertices) ==
    [results |-> results, indices |-> indices, vertices |-> vertices]

\* One turn of the closure of index_vertices_with: the index goes to the index
\* buffer (as usize, the index type of the buffers by default) and the
\* vertex, when one is returned, to the vertex buffer.
PushIndexed(buffers, r) ==
    Buffers(Append(buffers.results, <<r.index, r.vertex>>),
            Append(buffers.indices, r.index),
            IF r.vertex # None THEN Append(buffers.vertices, r.vertex)
            ELSE buffers.vertices)

NoneIndexed == [hash |-> Buffers(<<>>, <<>>, <<>>), lru |-> Buffers(<<>>, <<>>, <<>>)]

\* ------------------------------------------------------------------- state
VARIABLES
    storage,    \* the backend: unjournaled, inside the Journaled, or returned
    log,        \* Journaled::log
    state,      \* Journaled::state
    phase,      \* "raw", "journaled", "committed", "aborted"
    borrow,     \* the reference returned by the last get_mut is still usable
    original,   \* the backend the journal was created over
    rekeying,   \* the Rekeying returned by commit_and_rekey
    target,     \* the value behind the `&mut T` a Replace is created over
    inner,      \* Replace::inner: the mutation, when not drained
    before,     \* the value of the target when Replace::replace was called
    last,       \* the storage of the mutation when it was committed or aborted
    outcome,    \* how the last mutation ended
    returned,   \* what the last operation returned (of a `&mut`, what it refers to)
    removed,    \* the keys removed from a slot map used on its own
    alive,      \* a Replace exists: created, and not yet forgotten or dropped
    applied,    \* what was applied to the mutation of the Replace, in order
    core,       \* a Core: its four fields, each unfused or holding a storage
    cache,      \* the cache snapshot of the face operation in progress
    ops,        \* the number of face operations begun on the graph
    circulator, \* an ArcCirculator: its arc and its breadcrumb
    yielded,    \* the arcs the circulator has yielded, in order
    hash,       \* a HashIndexer: its hash and its n
    lru,        \* an LruIndexer: its lru, its capacity and its n
    stream,     \* the keys of the vertices of the stream that is indexed
    indexed     \* of each indexer: the results of index and the two buffers

jvars == <<storage, log, state, phase, borrow, original, rekeying>>

rvars == <<target, inner, before, last, outcome, returned>>

\* The variables of a Replace besides what the last operation returned.
ovars == <<target, inner, before, last, outcome>>

\* The variables of a circulator and of the indexers.
xvars == <<circulator, yielded, hash, lru, stream, indexed>>

svars == <<removed, alive, applied, core, cache, ops, xvars>>

\* What an operation of a Replace leaves alone besides the journal.
dvars == <<removed, core, cache, ops, xvars>>

vars == <<storage, log, state, phase, borrow, original, rekeying,
          target, inner, before, last, outcome, returned, removed,
          alive, applied, core, cache, ops, xvars>>

\* A backend nothing was done to, and a target no Replace was created over.
Init ==
    /\ storage \in {SlotNew, HashNew}
    /\ log = <<>>
    /\ state = StateOf(storage)
    /\ phase = "raw"
    /\ borrow = FALSE
    /\ original = storage
    /\ rekeying = {}
    /\ target = SlotNew
    /\ inner = NoMutation
    /\ before = SlotNew
    /\ last = SlotNew
    /\ outcome = "none"
    /\ returned = Returned("none", None)
    /\ removed = {}
    /\ alive = FALSE
    /\ applied = <<>>
    /\ core = CoreEmpty
    /\ cache = NoCache
    /\ ops = 0
    /\ circulator = NoCirculator
    /\ yielded = <<>>
    /\ hash = HashIndexerNew
    /\ lru = LruWithCapacity(0)
    /\ stream = <<>>
    /\ indexed = NoneIndexed

\* The keys ever issued for the slots of a slot storage: of each slot the
\* live key, if any, and the stale keys of its earlier versions.
SlotKeys(m) ==
    UNION {{<<i, v>> : v \in {n \in 1..m.slots[i].version : n % 2 = 1}} :
               i \in 1..Len(m.slots)}

\* Keys a caller may pass to the storage: the keys of its slots (live or
\* stale), the staged keys, and keys that were never issued: the key of the
\* next slot and the next synthetic key. Every key of the hash backend.
CallerKeys ==
    IF storage.kind = "slot"
    THEN SlotKeys(storage) \cup LogKeySet(log)
             \cup {<<Len(storage.slots) + 1, 1>>, SynthesizeKey(state)}
    ELSE HashKeys

\* Entities put into the backend before it is journaled.
RawEntities == {MaxEntity}

\* Insert::insert on the unjournaled slot backend
RawInsert(e) ==
    /\ phase = "raw"
    /\ storage.kind = "slot"
    /\ \E o \in BInsert(storage, e) :
        /\ Len(o.storage.slots) <= MaxSlots
        /\ o.key[2] <= MaxVersion
        /\ storage' = o.storage
        /\ original' = o.storage
        /\ state' = StateOf(o.storage)
        /\ returned' = Returned("Ok", o.key)
    /\ UNCHANGED <<log, phase, borrow, rekeying>>
    /\ UNCHANGED ovars
    /\ UNCHANGED svars

\* InsertWithKey::insert_with_key on the unjournaled hash backend
RawInsertWithKey(k, e) ==
    /\ phase = "raw"
    /\ storage.kind = "hash"
    /\ storage' = BInsertWithKey(storage, k, e)
    /\ original' = storage'
    /\ state' = StateOf(storage')
    /\ UNCHANGED <<log, phase, borrow, rekeying>>
    /\ returned' = Returned("Ok", BGet(storage, k))
    /\ UNCHANGED ovars
    /\ UNCHANGED svars

\* Remove::remove on the unjournaled backend
RawRemove(k) ==
    /\ phase = "raw"
    /\ BGet(storage, k) # None
    /\ storage.kind = "slot" => k[2] < MaxVersion
    /\ storage' = BRemove(storage, k)
    /\ original' = storage'
    /\ state' = StateOf(storage')
    /\ UNCHANGED <<log, phase, borrow, rekeying>>
    /\ returned' = Returned("Ok", BGet(storage, k))
    /\ UNCHANGED ovars
    /\ UNCHANGED svars

\* A Journaled is created over the backend; its state is taken from it.
Journal ==
    /\ phase = "raw"
    /\ ~StatePanics(storage)
    /\ phase' = "journaled"
    /\ state' = StateOf(storage)
    /\ original' = storage
    /\ log' = <<>>
    /\ UNCHANGED <<storage, borrow, rekeying>>
    /\ returned' = Returned("none", None)
    /\ UNCHANGED ovars
    /\ UNCHANGED svars

\* A get_mut that stages nothing and hands out the visible value itself.
JGetMutWithoutCopy(k) ==
    /\ phase = "journaled"
    /\ JGet(storage, log, k) # None
    /\ borrow' = ~borrow
    /\ returned' = Returned("Ok", JGet(storage, log, k))
    /\ UNCHANGED <<storage, log, state, phase, original, rekeying>>
    /\ UNCHANGED ovars
    /\ UNCHANGED svars

\* Journaled::get_mut
JGetMut(k) ==
    /\ phase = "journaled"
    /\ LET entity == JGet(storage, log, k)
       IN  IF entity # None
           THEN /\ Len(log) < MaxLog
                /\ log' = Append(log, Entry(k, Write(entity)))
                /\ borrow' = TRUE
                /\ returned' = Returned("Ok", entity)
           ELSE /\ log' = log
                /\ borrow' = FALSE
                /\ returned' = Returned("Ok", None)
    /\ UNCHANGED <<storage, state, phase, original, rekeying>>
    /\ UNCHANGED ovars
    /\ UNCHANGED svars

\* The caller writes through the reference returned by get_mut.
JWrite(e) ==
    /\ phase = "journaled"
    /\ borrow
    /\ log[Len(log)].mutation.e # e
    /\ log' = [log EXCEPT ![Len(log)].mutation = Write(e)]
    /\ returned' = Returned("Ok", e)
    /\ UNCHANGED <<storage, state, phase, borrow, original, rekeying>>
    /\ UNCHANGED ovars
    /\ UNCHANGED svars

\* A write through a reference that Journaled::iter_mut yields. It yields the
\* data of the entities of the backend that have no entry in the log, from
\* the backend itself, and the data of the entity of the last mutation of
\* each entry; nothing is staged.
JIterMutWrite(k, e) ==
    /\ phase = "journaled"
    /\ IF k \in LogKeySet(log)
       THEN /\ AsEntity(NextBack(log, k)) \notin {None, e}
            /\ LET i == CHOOSE i \in 1..Len(log) :
                            /\ log[i].key = k
                            /\ \A j \in (i + 1)..Len(log) : log[j].key # k
               IN  log' = [log EXCEPT ![i].mutation.e = e]
            /\ UNCHANGED storage
       ELSE /\ BGet(storage, k) \notin {None, e}
            /\ storage' = BSet(storage, k, e)
            /\ UNCHANGED log
    /\ borrow' = FALSE
    /\ returned' = Returned("Ok", e)
    /\ UNCHANGED <<state, phase, original, rekeying>>
    /\ UNCHANGED ovars
    /\ UNCHANGED svars

\* Journaled::insert
JInsert(e) ==
    /\ phase = "journaled"
    /\ storage.kind = "slot"
    /\ Len(log) < MaxLog
    /\ ~SynthesizePanics(state)
    /\ log' = Append(log, Entry(SynthesizeKey(state), Insert(e)))
    /\ state' = SynthesizeNext(state)
    /\ borrow' = FALSE
    /\ UNCHANGED <<storage, phase, original, rekeying>>
    /\ returned' = Returned("Ok", SynthesizeKey(state))
    /\ UNCHANGED ovars
    /\ UNCHANGED svars

\* What Journaled::insert_with_key returns: the occupant, when the log
\* already had an entry for the key (append returned true).
InsertWithKeyReturned(m, l, k) ==
    IF k \in LogKeySet(l) THEN JGet(m, l, k) ELSE None

\* Journaled::insert_with_key
JInsertWithKey(k, e) ==
    /\ phase = "journaled"
    /\ storage.kind = "hash"
    /\ Len(log) < MaxLog
    /\ log' = Append(log, Entry(k, Insert(e)))
    /\ borrow' = FALSE
    /\ UNCHANGED <<storage, state, phase, original, rekeying>>
    /\ returned' = Returned("Ok", InsertWithKeyReturned(storage, log, k))
    /\ UNCHANGED ovars
    /\ UNCHANGED svars

\* A remove that is forwarded to the storage field instead of the journal.
JRemoveForwarded(k) ==
    /\ phase = "journaled"
    /\ storage' = BRemove(storage, k)
    /\ borrow' = FALSE
    /\ UNCHANGED <<log, state, phase, original, rekeying>>
    /\ returned' = Returned("Ok", BGet(storage, k))
    /\ UNCHANGED ovars
    /\ UNCHANGED svars

\* A remove that stages a Remove only for a visible key.
JRemoveIfVisible(k) ==
    /\ phase = "journaled"
    /\ Len(log) < MaxLog
    /\ log' = IF JGet(storage, log, k) # None THEN Append(log, Entry(k, Remove)) ELSE log
    /\ borrow' = FALSE
    /\ returned' = Returned("Ok", JGet(storage, log, k))
    /\ UNCHANGED <<storage, state, phase, original, rekeying>>
    /\ UNCHANGED ovars
    /\ UNCHANGED svars

\* Journaled::remove
JRemove(k) ==
    /\ phase = "journaled"
    /\ Len(log) < MaxLog
    /\ log' = Append(log, Entry(k, Remove))
    /\ borrow' = FALSE
    /\ UNCHANGED <<storage, state, phase, original, rekeying>>
    /\ returned' = Returned("Ok", JGet(storage, log, k))
    /\ UNCHANGED ovars
    /\ UNCHANGED svars

\* VertexMutation::connect_outgoing_arc in Transacted mode: the vertex
\* storage is the Journaled, with_vertex_mut goes through its get_mut.
JConnectOutgoingArc(a, ab) ==
    /\ phase = "journaled"
    /\ IF JGet(storage, log, a) = None
       THEN /\ log' = log
            /\ returned' = Returned("TopologyNotFound", None)
       ELSE /\ Len(log) < MaxLog
            /\ log' = Append(log, Entry(a, Write(Vertex(ab))))
            /\ returned' = Returned("Ok", None)
    /\ borrow' = FALSE
    /\ UNCHANGED <<storage, state, phase, original, rekeying>>
    /\ UNCHANGED ovars
    /\ UNCHANGED svars

\* A disconnect that clears the leading arc and returns nothing.
JDisconnectOutgoingArcSilent(a) ==
    /\ phase = "journaled"
    /\ JGet(storage, log, a) # None
    /\ Len(log) < MaxLog
    /\ log' = Append(log, Entry(a, Write(Vertex(None))))
    /\ returned' = Returned("Ok", None)
    /\ borrow' = FALSE
    /\ UNCHANGED <<storage, state, phase, original, rekeying>>
    /\ UNCHANGED ovars
    /\ UNCHANGED svars

\* VertexMutation::disconnect_outgoing_arc in Transacted mode
JDisconnectOutgoingArc(a) ==
    /\ phase = "journaled"
    /\ IF JGet(storage, log, a) = None
       THEN /\ log' = log
            /\ returned' = Returned("TopologyNotFound", None)
       ELSE /\ Len(log) < MaxLog
            /\ log' = Append(log, Entry(a, Write(Vertex(None))))
            /\ returned' = Returned("Ok", ArcOf(JGet(storage, log, a)))
    /\ borrow' = FALSE
    /\ UNCHANGED <<storage, state, phase, original, rekeying>>
    /\ UNCHANGED ovars
    /\ UNCHANGED svars

\* Journaled::abort
Abort ==
    /\ phase = "journaled"
    /\ phase' = "aborted"
    /\ borrow' = FALSE
    /\ UNCHANGED <<storage, log, state, original, rekeying>>
    /\ returned' = Returned("none", None)
    /\ UNCHANGED ovars
    /\ UNCHANGED svars

\* Journaled::commit_and_rekey. The log is kept as the record of what was
\* staged.
Commit ==
    /\ phase = "journaled"
    /\ storage.kind = "slot"
    /\ \E r \in CommitAndRekey(storage, log) :
        /\ storage' = r.storage
        /\ rekeying' = r.rekeying
    /\ phase' = "committed"
    /\ borrow' = FALSE
    /\ UNCHANGED <<log, state, original>>
    /\ returned' = Returned("none", None)
    /\ UNCHANGED ovars
    /\ UNCHANGED svars

Next ==
    \/ \E e \in RawEntities : RawInsert(e)
    \/ \E k \in HashKeys, e \in RawEntities : RawInsertWithKey(k, e)
    \/ \E k \in CallerKeys : RawRemove(k)
    \/ Journal
    \/ \E k \in CallerKeys : JGetMut(k)
    \/ \E e \in Entities : JWrite(e)
    \/ \E e \in Entities : JInsert(e)
    \/ \E k \in HashKeys, e \in Entities : JInsertWithKey(k, e)
    \/ \E k \in CallerKeys : JRemove(k)
    \/ Abort
    \/ Commit

Spec == Init /\ [][Next]_vars

\* ------------------------------------------- staging, one operation at a time
\* The operations that stage mutations, on a journal of few entries; the
\* vertex operations are those of a VertexMutation in Transacted mode, whose
\* storage is the Journaled.
NextStage ==
    /\ Len(log) < MaxStaged
    /\ \/ \E e \in RawEntities : RawInsert(e)
       \/ \E k \in HashKeys, e \in RawEntities : RawInsertWithKey(k, e)
       \/ \E k \in CallerKeys : RawRemove(k)
       \/ Journal
       \/ \E k \in CallerKeys : JGetMut(k)
       \/ \E e \in Entities : JInsert(e)
       \/ \E k \in HashKeys, e \in Entities : JInsertWithKey(k, e)
       \/ \E k \in CallerKeys : JRemove(k)
       \/ \E a \in CallerKeys, ab \in ArcKeys : JConnectOutgoingArc(a, ab)
       \/ \E a \in CallerKeys : JDisconnectOutgoingArc(a)
       \/ \E k \in CallerKeys, e \in Entities : JIterMutWrite(k, e)

\* A backend nothing was done to.
InitStage ==
    /\ storage \in {SlotNew, HashNew}
    /\ log = <<>>
    /\ state = StateOf(storage)
    /\ phase = "raw"
    /\ borrow = FALSE
    /\ original = storage
    /\ rekeying = {}
    /\ target = SlotNew
    /\ inner = NoMutation
    /\ before = SlotNew
    /\ last = SlotNew
    /\ outcome = "none"
    /\ returned = Returned("none", None)
    /\ removed = {}
    /\ alive = FALSE
    /\ applied = <<>>
    /\ core = CoreEmpty
    /\ cache = NoCache
    /\ ops = 0
    /\ circulator = NoCirculator
    /\ yielded = <<>>
    /\ hash = HashIndexerNew
    /\ lru = LruWithCapacity(0)
    /\ stream = <<>>
    /\ indexed = NoneIndexed

SpecStage == InitStage /\ [][NextStage]_vars

\* ------------------------------------- a commit after an aborted session
\* The keys that an earlier journal over this backend, since aborted, has
\* synthesized: the first keys of the state of the backend.
EarlierKeys ==
    {SynthesizeKey(StateOf(storage)), SynthesizeKey(SynthesizeNext(StateOf(storage)))}

\* Keys a caller may pass who also holds the keys of the earlier session.
SessionKeys == CallerKeys \cup EarlierKeys

NextRekey ==
    \/ \E e \in RawEntities : RawInsert(e)
    \/ Journal
    \/ \E e \in Entities : JInsert(e)
    \/ \E k \in SessionKeys : JRemove(k)
    \/ Commit

\* An empty slot map.
InitRekey ==
    /\ storage = SlotNew
    /\ log = <<>>
    /\ state = StateOf(SlotNew)
    /\ phase = "raw"
    /\ borrow = FALSE
    /\ original = SlotNew
    /\ rekeying = {}
    /\ target = SlotNew
    /\ inner = NoMutation
    /\ before = SlotNew
    /\ last = SlotNew
    /\ outcome = "none"
    /\ returned = Returned("none", None)
    /\ removed = {}
    /\ alive = FALSE
    /\ applied = <<>>
    /\ core = CoreEmpty
    /\ cache = NoCache
    /\ ops = 0
    /\ circulator = NoCirculator
    /\ yielded = <<>>
    /\ hash = HashIndexerNew
    /\ lru = LruWithCapacity(0)
    /\ stream = <<>>
    /\ indexed = NoneIndexed

SpecRekey == InitRekey /\ [][NextRekey]_vars

\* ------------------------------------------------------------ Replace
\* The value callers pass as the replacement: Default::default().
Replacements == {SlotNew}

\* Replace::replace. The Replace borrows the target mutably, so there is one
\* Replace over a target at a time.
ReplaceReplace(replacement) ==
    /\ ~alive
    /\ before' = target
    /\ target' = replacement
    /\ inner' = SomeMutation(target)
    /\ outcome' = "none"
    /\ returned' = Returned("none", None)
    /\ alive' = TRUE
    /\ applied' = <<>>
    /\ UNCHANGED last
    /\ UNCHANGED jvars
    /\ UNCHANGED dvars

\* vertex::insert through the mutation of the Replace
VertexInsert ==
    /\ inner.some
    /\ \E o \in BInsert(inner.storage, Vertex(None)) :
        /\ Len(o.storage.slots) <= MaxVertices
        /\ inner' = SomeMutation(o.storage)
        /\ returned' = Returned("Ok", o.key[1])
    /\ UNCHANGED <<target, before, last, outcome>>
    /\ UNCHANGED jvars
    /\ UNCHANGED svars

\* VertexMutation::connect_outgoing_arc
ConnectOutgoingArc(a, ab) ==
    /\ inner.some
    /\ IF BGet(inner.storage, a) = None
       THEN /\ returned' = Returned("TopologyNotFound", None)
            /\ UNCHANGED inner
       ELSE /\ inner' = SomeMutation(BSet(inner.storage, a, Vertex(ab)))
            /\ returned' = Returned("Ok", None)
    /\ UNCHANGED <<target, before, last, outcome>>
    /\ UNCHANGED jvars
    /\ UNCHANGED svars

\* VertexMutation::disconnect_outgoing_arc
DisconnectOutgoingArc(a) ==
    /\ inner.some
    /\ IF BGet(inner.storage, a) = None
       THEN /\ returned' = Returned("TopologyNotFound", None)
            /\ UNCHANGED inner
       ELSE /\ inner' = SomeMutation(BSet(inner.storage, a, Vertex(None)))
            /\ returned' = Returned("Ok", ArcOf(BGet(inner.storage, a)))
    /\ UNCHANGED <<target, before, last, outcome>>
    /\ UNCHANGED jvars
    /\ UNCHANGED svars

\* Replace::drain_and_commit: Drain::drain takes the pair out of the Option
\* and panics with "drained" when it is not there; the mutation is then
\* committed (VertexMutation::commit) and written to the target on success.
DrainAndCommit ==
    IF inner.some
    THEN /\ inner' = NoMutation
         /\ last' = inner.storage
         /\ applied' = Append(applied, "commit")
         /\ IF Consistent(inner.storage)
            THEN /\ target' = inner.storage
                 /\ outcome' = "Ok"
            ELSE /\ UNCHANGED target
                 /\ outcome' = "TopologyMalformed"
    ELSE /\ outcome' = "drained"
         /\ UNCHANGED <<inner, last, applied, target>>

\* A commit that does not forget the Replace: Drop runs on it afterwards.
ReplaceCommitWithoutForget ==
    /\ alive
    /\ DrainAndCommit
    /\ UNCHANGED alive
    /\ UNCHANGED <<before, returned>>
    /\ UNCHANGED jvars
    /\ UNCHANGED dvars

\* Transact::commit of Replace: drain_and_commit, then mem::forget(self), so
\* that Drop does not run.
ReplaceCommit ==
    /\ alive
    /\ DrainAndCommit
    /\ alive' = FALSE
    /\ UNCHANGED <<before, returned>>
    /\ UNCHANGED jvars
    /\ UNCHANGED dvars

\* Replace::drain_and_abort: the pair is drained, the mutation is aborted
\* (dropped), the target is returned as it is. Every caller ends the Replace:
\* abort forgets it, drop is its end.
DrainAndAbort(how) ==
    /\ alive
    /\ alive' = FALSE
    /\ IF inner.some
       THEN /\ inner' = NoMutation
            /\ last' = inner.storage
            /\ applied' = Append(applied, "abort")
            /\ outcome' = how
       ELSE /\ outcome' = "drained"
            /\ UNCHANGED <<inner, last, applied>>
    /\ UNCHANGED <<target, before, returned>>

\* Transact::abort of Replace
ReplaceAbort ==
    /\ DrainAndAbort("abort")
    /\ UNCHANGED jvars
    /\ UNCHANGED dvars

\* Drop::drop of a Replace that was neither committed nor aborted
ReplaceDrop ==
    /\ DrainAndAbort("drop")
    /\ UNCHANGED jvars
    /\ UNCHANGED dvars

\* Transact::commit_with when the closure returned Ok(value): commit, and
\* the value is returned with the output of the commit, or the error of the
\* commit alone.
CommitWithOk ==
    /\ alive
    /\ returned.error \in {"none", "Ok"}
    /\ DrainAndCommit
    /\ alive' = FALSE
    /\ returned' = IF inner.some /\ ~Consistent(inner.storage)
                   THEN Returned("TopologyMalformed", None)
                   ELSE Returned("Ok", returned.value)
    /\ UNCHANGED before
    /\ UNCHANGED jvars
    /\ UNCHANGED dvars

\* A commit_with that commits although the closure returned an error.
CommitWithErrorCommits ==
    /\ returned.error \notin {"none", "Ok"}
    /\ alive
    /\ DrainAndCommit
    /\ alive' = FALSE
    /\ UNCHANGED <<before, returned>>
    /\ UNCHANGED jvars
    /\ UNCHANGED dvars

\* Transact::commit_with when the closure returned an error: abort
CommitWithError ==
    /\ returned.error \notin {"none", "Ok"}
    /\ DrainAndAbort("error")
    /\ UNCHANGED jvars
    /\ UNCHANGED dvars

\* Keys a caller may pass to the mutation: the keys of its vertices and the
\* key of the next slot, which no vertex has.
VertexKeys == SlotKeys(inner.storage) \cup {<<Len(inner.storage.slots) + 1, 1>>}

NextReplace ==
    \/ \E r \in Replacements : ReplaceReplace(r)
    \/ VertexInsert
    \/ \E a \in VertexKeys, ab \in ArcKeys : ConnectOutgoingArc(a, ab)
    \/ \E a \in VertexKeys : DisconnectOutgoingArc(a)
    \/ ReplaceCommit
    \/ ReplaceAbort
    \/ ReplaceDrop
    \/ CommitWithOk
    \/ CommitWithError

\* The target holds an empty vertex storage; the journal is not used.
InitReplace ==
    /\ storage = SlotNew
    /\ log = <<>>
    /\ state = StateOf(SlotNew)
    /\ phase = "raw"
    /\ borrow = FALSE
    /\ original = SlotNew
    /\ rekeying = {}
    /\ target = SlotNew
    /\ inner = NoMutation
    /\ before = SlotNew
    /\ last = SlotNew
    /\ outcome = "none"
    /\ returned = Returned("none", None)
    /\ removed = {}
    /\ alive = FALSE
    /\ applied = <<>>
    /\ core = CoreEmpty
    /\ cache = NoCache
    /\ ops = 0
    /\ circulator = NoCirculator
    /\ yielded = <<>>
    /\ hash = HashIndexerNew
    /\ lru = LruWithCapacity(0)
    /\ stream = <<>>
    /\ indexed = NoneIndexed

SpecReplace == InitReplace /\ [][NextReplace]_vars

\* ------------------------------------------------ a slot map on its own
\* Insert::insert on a slot map that is not journaled
SlotInsert(e) ==
    /\ \E o \in BInsert(storage, e) :
        /\ Len(o.storage.slots) <= SlotLen
        /\ o.key[2] <= SlotVersion
        /\ storage' = o.storage
        /\ returned' = Returned("Ok", o.key)
    /\ UNCHANGED removed
    /\ UNCHANGED <<alive, applied, core, cache, ops, xvars>>
    /\ UNCHANGED <<log, state, phase, borrow, original, rekeying>>
    /\ UNCHANGED ovars

\* Remove::remove on a slot map that is not journaled
SlotRemove(k) ==
    /\ storage' = BRemove(storage, k)
    /\ returned' = Returned("Ok", BGet(storage, k))
    /\ removed' = IF BGet(storage, k) # None THEN removed \cup {k} ELSE removed
    /\ UNCHANGED <<alive, applied, core, cache, ops, xvars>>
    /\ UNCHANGED <<log, state, phase, borrow, original, rekeying>>
    /\ UNCHANGED ovars

\* Keys a caller may pass to the slot map: the keys of its slots, live or
\* stale, and the key of the next slot.
SlotCallerKeys == SlotKeys(storage) \cup {<<Len(storage.slots) + 1, 1>>}

NextSlot ==
    \/ \E e \in Entities : SlotInsert(e)
    \/ \E k \in SlotCallerKeys : SlotRemove(k)

\* An empty slot map.
InitSlot ==
    /\ storage = SlotNew
    /\ log = <<>>
    /\ state = StateOf(SlotNew)
    /\ phase = "raw"
    /\ borrow = FALSE
    /\ original = SlotNew
    /\ rekeying = {}
    /\ target = SlotNew
    /\ inner = NoMutation
    /\ before = SlotNew
    /\ last = SlotNew
    /\ outcome = "none"
    /\ returned = Returned("none", None)
    /\ removed = {}
    /\ alive = FALSE
    /\ applied = <<>>
    /\ core = CoreEmpty
    /\ cache = NoCache
    /\ ops = 0
    /\ circulator = NoCirculator
    /\ yielded = <<>>
    /\ hash = HashIndexerNew
    /\ lru = LruWithCapacity(0)
    /\ stream = <<>>
    /\ indexed = NoneIndexed

SpecSlot == InitSlot /\ [][NextSlot]_vars

\* ---------------------------------------------------- key synthesis alone
\* No key: what is recorded when an operation on keys returns none.
NoKey == <<>>

\* A panic ended the program.
Panicked == returned.error \notin {"none", "Ok"}

\* HopSlotMap::with_capacity
WithCapacity(cap) == [SlotNew EXCEPT !.cap = cap]

\* JournalState::state on a slot map of the given capacity
TakeState(cap) ==
    /\ ~Panicked
    /\ storage' = WithCapacity(cap)
    /\ IF StatePanics(WithCapacity(cap))
       THEN /\ returned' = Returned("insufficient capacity for journaling", NoKey)
            /\ UNCHANGED state
       ELSE /\ returned' = Returned("Ok", NoKey)
            /\ state' = StateOf(WithCapacity(cap))
    /\ UNCHANGED <<log, phase, borrow, original, rekeying>>
    /\ UNCHANGED ovars
    /\ UNCHANGED svars

\* SyntheticKey::synthesize
Synthesize ==
    /\ ~Panicked
    /\ IF state.version = 0
       THEN /\ returned' = Returned("zero version in synthesized key", NoKey)
            /\ UNCHANGED state
       ELSE IF SynthesizePanics(state)
       THEN /\ returned' = Returned("exhausted synthesized keys", NoKey)
            /\ UNCHANGED state
       ELSE /\ returned' = Returned("Ok", SynthesizeKey(state))
            /\ state' = SynthesizeNext(state)
    /\ UNCHANGED <<storage, log, phase, borrow, original, rekeying>>
    /\ UNCHANGED ovars
    /\ UNCHANGED svars

NextSynthesize ==
    \/ \E cap \in 0..U32Max : TakeState(cap)
    \/ Synthesize

\* The state of an empty slot map.
InitSynthesize ==
    /\ storage = SlotNew
    /\ log = <<>>
    /\ state = StateOf(SlotNew)
    /\ phase = "raw"
    /\ borrow = FALSE
    /\ original = SlotNew
    /\ rekeying = {}
    /\ target = SlotNew
    /\ inner = NoMutation
    /\ before = SlotNew
    /\ last = SlotNew
    /\ outcome = "none"
    /\ returned = Returned("none", NoKey)
    /\ removed = {}
    /\ alive = FALSE
    /\ applied = <<>>
    /\ core = CoreEmpty
    /\ cache = NoCache
    /\ ops = 0
    /\ circulator = NoCirculator
    /\ yielded = <<>>
    /\ hash = HashIndexerNew
    /\ lru = LruWithCapacity(0)
    /\ stream = <<>>
    /\ indexed = NoneIndexed

SpecSynthesize == InitSynthesize /\ [][NextSynthesize]_vars

\* ------------------------------------------------------------ properties
\* The rekeying as a function: the backend key a log key was resolved to.
Rekeyed(k) == (CHOOSE p \in rekeying : p[1] = k)[2]

\* The positions of the log that hold a mutation of the key k.
Staged(k) == {i \in 1..Len(log) : log[i].key = k}

\* C1: abort() returns a backend with the same (key, entity) pairs as the
\* backend the journal was created over, whatever was staged.
AbortEquivalence ==
    phase = "aborted" => BContent(storage) = BContent(original)

AbortEquivalenceWitness ==
    /\ phase = "aborted"
    /\ BLen(original) > 0
    /\ \E i, j \in 1..Len(log) : log[i].mutation.op = "Remove" /\ log[j].mutation.op # "Remove"

\* C5: the rekeying has an entry for every key of the log, maps every key
\* that was in the backend to itself, and every key whose last mutation
\* holds an entity e resolves to a backend key under which e is stored.
CommitAndRekeyApplies ==
    phase = "committed" =>
        /\ {p[1] : p \in rekeying} = LogKeySet(log)
        /\ \A k \in LogKeySet(log) :
            /\ BGet(original, k) # None => Rekeyed(k) = k
            /\ AsEntity(NextBack(log, k)) # None =>
                   BGet(storage, Rekeyed(k)) = AsEntity(NextBack(log, k))

\* The three mutations Insert(k, v1), Write(k, v2), Write(k, v3) are all that
\* was staged.
InsertWriteWrite ==
    /\ Len(log) = 3
    /\ log[1].mutation.op = "Insert"
    /\ log[2].mutation.op = "Write"
    /\ log[3].mutation.op = "Write"
    /\ log[2].key = log[1].key
    /\ log[3].key = log[1].key

\* C6 as stated: after Insert(k, v1), Write(k, v2), Write(k, v3) and commit
\* the backend holds v3 under k.
LastWriteWinsAtKey ==
    (phase = "committed" /\ InsertWriteWrite) => BGet(storage, log[1].key) = log[3].mutation.e

\* C6 amended: after Insert(k, v1), Write(k, v2), Write(k, v3) and commit the
\* backend holds v3 under the key the rekeying gives for k.
LastWriteWinsRekeyed ==
    (phase = "committed" /\ InsertWriteWrite) =>
        BGet(storage, Rekeyed(log[1].key)) = log[3].mutation.e

LastWriteWinsWitness ==
    /\ phase = "committed"
    /\ InsertWriteWrite
    /\ log[3].mutation.e # log[1].mutation.e
    /\ Rekeyed(log[1].key) # log[1].key

\* C7: a key staged with Insert and then Remove holds no entity in the
\* backend after commit.
InsertThenRemove ==
    phase = "committed" =>
        \A k \in LogKeySet(log) :
            (\E i, j \in Staged(k) : /\ i < j
                                     /\ log[i].mutation.op = "Insert"
                                     /\ log[j].mutation.op = "Remove")
                => BGet(storage, k) = None

\* C8: the number of entries iter() yields before commit is the number of
\* entries of the backend after commit.
EnumerateConsistency ==
    phase = "committed" => Len(JIter(original, log)) = BLen(storage)

\* C9: len() is the backend length, plus the keys whose latest entry is an
\* Insert and that are absent from the backend, minus the keys whose latest
\* entry is a Remove and that are present in the backend.
EffectiveLength ==
    phase = "journaled" =>
        JLen(storage, log) =
            BLen(storage)
            + Cardinality({k \in LogKeySet(log) :
                    NextBack(log, k).op = "Insert" /\ BGet(storage, k) = None})
            - Cardinality({k \in LogKeySet(log) :
                    NextBack(log, k).op = "Remove" /\ BGet(storage, k) # None})

\* C10: iter() and keys() yield (k, e) exactly once when get(k) is e and
\* yield nothing for k when get(k) is None.
EnumerateAgreesWithGet ==
    phase = "journaled" =>
        LET it == JIter(storage, log)
            ks == JKeys(storage, log)
        IN  \A k \in CallerKeys \cup LogKeySet(log) \cup {it[n][1] : n \in 1..Len(it)} :
                LET at == {n \in 1..Len(it) : it[n][1] = k}
                IN  /\ at = {n \in 1..Len(ks) : ks[n] = k}
                    /\ IF JGet(storage, log, k) = None
                       THEN at = {}
                       ELSE /\ Cardinality(at) = 1
                            /\ \A n \in at : it[n][2] = JGet(storage, log, k)

EnumerateAgreesWithGetWitness ==
    /\ phase = "journaled"
    /\ \E k \in LogKeySet(log) : BGet(storage, k) # None /\ NextBack(log, k).op = "Write"
    /\ \E k \in LogKeySet(log) : NextBack(log, k).op = "Remove"
    /\ \E k \in LogKeySet(log) : BGet(storage, k) = None /\ NextBack(log, k).op = "Insert"

\* The last position of the log that holds a mutation of the key k.
LastStaged(k) == CHOOSE i \in Staged(k) : \A j \in Staged(k) : j <= i

\* The (key, entity) pairs seen through Journaled::iter.
View(m, l) == {JIter(m, l)[n] : n \in 1..Len(JIter(m, l))}

\* The keys a read may be made with.
ReadKeys == CallerKeys \cup LogKeySet(log)

\* C11: get(k) is the entity of the most recent mutation staged for k (None
\* when that is a Remove) whenever the log has an entry for k, and the value
\* of the backend otherwise.
GetReadsJournal ==
    phase = "journaled" =>
        \A k \in ReadKeys :
            JGet(storage, log, k) =
                IF Staged(k) # {}
                THEN AsEntity(log[LastStaged(k)].mutation)
                ELSE BGet(storage, k)

\* A key of the backend has two staged mutations, and what is read for it is
\* not what the backend holds.
GetReadsJournalWitness ==
    /\ phase = "journaled"
    /\ \E k \in LogKeySet(log) :
        /\ BGet(storage, k) # None
        /\ Cardinality(Staged(k)) >= 2
        /\ JGet(storage, log, k) # BGet(storage, k)

\* C12: get_mut(k) on a visible k appends one Write holding a copy of the
\* visible value, returns it and leaves get(k) as it was; on a k that is not
\* visible it returns None and leaves the log as it was. The backend is not
\* modified.
GetMutCopiesOnAccess ==
    [][\A k \in ReadKeys :
        JGetMut(k) =>
            /\ storage' = storage
            /\ IF JGet(storage, log, k) # None
               THEN /\ log' = Append(log, Entry(k, Write(JGet(storage, log, k))))
                    /\ returned' = Returned("Ok", JGet(storage, log, k))
                    /\ JGet(storage', log', k) = JGet(storage, log, k)
               ELSE /\ log' = log
                    /\ returned' = Returned("Ok", None)]_vars

\* get_mut returned a copy of an entity of the backend that had a staged
\* mutation before.
GetMutCopiesOnAccessWitness ==
    /\ phase = "journaled"
    /\ borrow
    /\ Len(log) >= 2
    /\ log[Len(log)].mutation.op = "Write"
    /\ BGet(storage, log[Len(log)].key) # None
    /\ returned = Returned("Ok", log[Len(log)].mutation.e)

\* C13: insert(e) returns a synthetic key k that was not visible, appends
\* Insert(e) for k and leaves the backend untouched; afterwards get(k) is e
\* and every other key reads as before.
InsertStagesFreshKey ==
    [][\A e \in Entities :
        JInsert(e) =>
            LET k == SynthesizeKey(state)
            IN  /\ JGet(storage, log, k) = None
                /\ log' = Append(log, Entry(k, Insert(e)))
                /\ storage' = storage
                /\ returned' = Returned("Ok", k)
                /\ JGet(storage', log', k) = e
                /\ \A o \in ReadKeys \ {k} :
                       JGet(storage', log', o) = JGet(storage, log, o)]_vars

\* A second insert was staged over a backend that holds an entity.
InsertStagesFreshKeyWitness ==
    /\ phase = "journaled"
    /\ BLen(storage) > 0
    /\ Len(log) >= 2
    /\ log[Len(log)].mutation.op = "Insert"
    /\ log[Len(log) - 1].mutation.op = "Insert"
    /\ returned = Returned("Ok", log[Len(log)].key)

\* C14: remove(k) appends a Remove wherever k is, returns the entity that was
\* visible for k, leaves get(k) at None, and does not change the visible
\* pairs when k was not visible.
RemoveStagesRemove ==
    [][\A k \in ReadKeys :
        JRemove(k) =>
            /\ log' = Append(log, Entry(k, Remove))
            /\ storage' = storage
            /\ returned' = Returned("Ok", JGet(storage, log, k))
            /\ JGet(storage', log', k) = None
            /\ JGet(storage, log, k) = None =>
                   /\ View(storage', log') = View(storage, log)
                   /\ \A o \in ReadKeys :
                          JGet(storage', log', o) = JGet(storage, log, o)]_vars

\* Removes were staged for a key of the backend and then for a key that is
\* not in the backend.
RemoveStagesRemoveWitness ==
    /\ phase = "journaled"
    /\ Len(log) = 2
    /\ BGet(storage, log[1].key) # None
    /\ log[1].mutation.op = "Remove"
    /\ log[2].mutation.op = "Remove"
    /\ BGet(storage, log[2].key) = None
    /\ returned = Returned("Ok", None)

\* C15: insert_with_key(k, e), on the hash backend and on a Journaled, returns
\* the entity that was visible for k before the call, and get(k) is e
\* afterwards.
InsertWithKeyReturnsOccupant ==
    [][\A k \in HashKeys, e \in Entities :
        /\ JInsertWithKey(k, e) =>
               /\ returned' = Returned("Ok", JGet(storage, log, k))
               /\ JGet(storage', log', k) = e
        /\ RawInsertWithKey(k, e) =>
               /\ returned' = Returned("Ok", BGet(storage, k))
               /\ BGet(storage', k) = e]_vars

\* C17: the synthesis state of a journal over a slot backend has its floor
\* one above the capacity of the backend and version 1, and no key staged by
\* insert is a key live in the backend.
SyntheticKeysAboveCapacity ==
    (phase = "journaled" /\ storage.kind = "slot") =>
        /\ state.floor = storage.cap + 1
        /\ state.index >= state.floor
        /\ state.version = 1
        /\ \A i \in 1..Len(log) :
               log[i].mutation.op = "Insert" =>
                   /\ log[i].key[1] > storage.cap
                   /\ log[i].key[2] = 1
                   /\ BGet(storage, log[i].key) = None

\* Two keys were synthesized over a backend that holds an entity and has
\* spare capacity.
SyntheticKeysAboveCapacityWitness ==
    /\ phase = "journaled"
    /\ BLen(storage) > 0
    /\ storage.cap > Len(storage.slots)
    /\ \E i, j \in 1..Len(log) :
        /\ i < j
        /\ log[i].mutation.op = "Insert"
        /\ log[j].mutation.op = "Insert"

\* C16: a key removed from a slot map is never live again: get on it gives
\* None after every later insert and remove, also when its slot is reused.
\* Slot versions stay within SlotVersion: the version counter of a slot is
\* not taken to its overflow.
RemovedKeyStaysDead ==
    \A k \in removed :
        /\ BGet(storage, k) = None
        /\ \A n \in 1..BLen(storage) : BKeys(storage)[n] # k

\* The slot of a removed key is occupied again.
RemovedKeyStaysDeadWitness ==
    \E k \in removed : Occupied(storage.slots[k[1]])

\* C18: synthesize returns the key made of the index and version of the
\* state; at the largest index the state then has its index at the floor and
\* its version increased by 2, otherwise its index increased by 1 and its
\* version as before; the floor does not change and the version is never 0.
SynthesizeAdvances ==
    [][(Synthesize /\ returned'.error = "Ok") =>
        /\ returned'.value = <<state.index, state.version>>
        /\ IF state.index = U32Max
           THEN /\ state'.index = state.floor
                /\ state'.version = state.version + 2
           ELSE /\ state'.index = state.index + 1
                /\ state'.version = state.version
        /\ state'.floor = state.floor
        /\ state.version # 0
        /\ state'.version # 0]_vars

\* The key at the largest index was synthesized, and the state went on at
\* its floor with the next version.
SynthesizeAdvancesWitness ==
    /\ returned = Returned("Ok", <<U32Max, state.version - 2>>)
    /\ state.index = state.floor
    /\ state.version >= 3

\* C30: every key synthesized from one journal state has an index at or
\* above the floor and an odd version, and comes after the key synthesized
\* before it in the order of (version, index), so that the keys of one state
\* are pairwise distinct.
SynthesizedKeysIncrease ==
    [][(Synthesize /\ returned'.error = "Ok") =>
        /\ returned'.value[1] >= state.floor
        /\ returned'.value[2] % 2 = 1
        /\ (returned.error = "Ok" /\ returned.value # NoKey) =>
                \/ returned.value[2] < returned'.value[2]
                \/ /\ returned.value[2] = returned'.value[2]
                   /\ returned.value[1] < returned'.value[1]]_vars

\* The second key of the second version was synthesized.
SynthesizedKeysIncreaseWitness ==
    /\ returned.error = "Ok"
    /\ returned.value = <<state.floor + 1, 3>>
    /\ state.floor + 1 < U32Max

\* C19: synthesize panics with 'exhausted synthesized keys' and returns no key
\* when the index overflows and the version cannot be increased by 2, and
\* taking the state panics when capacity + 1 does not fit.
ExhaustionIsFatal ==
    [][/\ (Synthesize /\ state.index = U32Max /\ state.version + 2 > U32Max) =>
            /\ returned' = Returned("exhausted synthesized keys", NoKey)
            /\ state' = state
       /\ \A cap \in 0..U32Max :
            (TakeState(cap) /\ cap + 1 > U32Max) =>
                /\ returned' = Returned("insufficient capacity for journaling", NoKey)
                /\ state' = state
       /\ Panicked => UNCHANGED vars]_vars

\* The keys of the last version were used up and synthesize panicked.
ExhaustionIsFatalWitness ==
    /\ returned = Returned("exhausted synthesized keys", NoKey)
    /\ state.index = U32Max
    /\ state.version + 2 > U32Max
    /\ state.floor > 1

LenCountsEnumerated ==
    phase = "journaled" =>
        /\ JLen(storage, log) >= 0
        /\ JLen(storage, log) = Len(JIter(storage, log))

\* C27: no operation of a Journaled storage other than commit_and_rekey
\* changes the content of the wrapped backend, writes through the references
\* of iter_mut included.
JournalLeavesBackend ==
    phase = "journaled" => BContent(storage) = BContent(original)

\* Every key of the log is a key of the backend or a key that insert issued.
OnlyIssuedKeys ==
    \A k \in LogKeySet(log) :
        BGet(original, k) # None \/ (\E i \in Staged(k) : log[i].mutation.op = "Insert")

\* C28: commit_and_rekey leaves every entity of the backend whose key has no
\* entry in the log under its key with its value, and when the log names only
\* keys of the backend and synthetic keys, every entity the log holds last for
\* a key is in the backend afterwards: none was overwritten or deleted by a
\* mutation staged for another key.
CommitChangesOnlyLogged ==
    phase = "committed" =>
        /\ \A kv \in BContent(original) :
                kv[1] \notin LogKeySet(log) => BGet(storage, kv[1]) = kv[2]
        /\ OnlyIssuedKeys =>
                \A k \in LogKeySet(log) :
                    AsEntity(NextBack(log, k)) # None =>
                        BGet(storage, Rekeyed(k)) = AsEntity(NextBack(log, k))

\* C29: the rekeying maps different keys of the log whose last mutation holds
\* an entity to different keys of the backend, and to no other key of the
\* log: a provisional key never denotes, after the commit, an entity staged
\* under another key.
RekeyingKeepsKeysApart ==
    phase = "committed" =>
        \A k1, k2 \in LogKeySet(log) :
            (k1 # k2 /\ AsEntity(NextBack(log, k1)) # None) =>
                /\ AsEntity(NextBack(log, k2)) # None => Rekeyed(k1) # Rekeyed(k2)
                /\ (\E i \in Staged(k2) : log[i].mutation.op = "Insert") => Rekeyed(k1) # k2

\* The vertices of a storage that have no leading arc.
WithoutArc(m) == {n \in 1..BLen(m) : BIter(m)[n][2] = Vertex(None)}

\* C2: when a mutation through a Replace ends without a successful commit,
\* the target holds the value it held before Replace::replace was called.
ReplaceRestoresTarget ==
    (~inner.some /\ outcome \in {"abort", "drop", "error"})
        => target = before

\* C3: a mutation that inserted a vertex and connected no leading arc to it
\* fails to commit with TopologyMalformed, and the target then has the vertex
\* count it had before the mutation began.
MalformedCommitKeepsVertices ==
    (~inner.some /\ outcome \in {"Ok", "TopologyMalformed"} /\ WithoutArc(last) # {})
        => /\ outcome = "TopologyMalformed"
           /\ BLen(target) = BLen(before)

\* C4: commit returns Ok exactly when no visible vertex lacks a leading arc,
\* and the committed core then holds exactly the visible vertices, all with
\* a leading arc.
CommitChecksLeadingArcs ==
    (~inner.some /\ outcome \in {"Ok", "TopologyMalformed"})
        => /\ outcome = "Ok" <=> WithoutArc(last) = {}
           /\ outcome = "Ok" => (target = last /\ WithoutArc(target) = {})

\* A commit succeeded on a mutation that inserted a vertex, which had no
\* leading arc until one was connected.
CommitChecksLeadingArcsWitness ==
    /\ ~inner.some
    /\ outcome = "Ok"
    /\ BLen(last) > BLen(before)

\* C21: over the lifetime of a Replace the pair is drained once and exactly
\* one of commit and abort is applied to the mutation: a commit or an abort
\* ends the Replace without the abort of Drop, a Replace that is dropped is
\* aborted, and neither the "drained" nor the "undrained" panic is reached.
ReplaceLifetime ==
    /\ outcome \notin {"drained", "undrained"}
    /\ Len(applied) <= 1
    /\ alive <=> inner.some
    /\ alive => applied = <<>>
    /\ (~alive /\ outcome \in {"Ok", "TopologyMalformed"}) => applied = <<"commit">>
    /\ (~alive /\ outcome \in {"abort", "drop", "error"}) => applied = <<"abort">>

\* A Replace was committed and is gone: nothing is left for Drop to abort.
ReplaceLifetimeWitness ==
    /\ ~alive
    /\ ~inner.some
    /\ outcome = "Ok"
    /\ applied = <<"commit">>
    /\ target # before

\* C22: commit_with commits when the closure returned Ok, and returns the
\* value with the output of the commit or the error of the commit alone; it
\* aborts and never commits when the closure returned an error, and returns
\* that error with the target as it was.
CommitWithCommitsOrAborts ==
    [][/\ CommitWithOk =>
            /\ applied' = <<"commit">>
            /\ IF Consistent(inner.storage)
               THEN /\ target' = inner.storage
                    /\ returned' = Returned("Ok", returned.value)
               ELSE /\ target' = target
                    /\ returned' = Returned("TopologyMalformed", None)
       /\ CommitWithError =>
            /\ applied' = <<"abort">>
            /\ target' = target
            /\ returned' = returned]_vars

\* The closure of a commit_with returned an error after it had inserted a
\* vertex; the mutation was aborted and the error returned.
CommitWithCommitsOrAbortsWitness ==
    /\ ~alive
    /\ outcome = "error"
    /\ applied = <<"abort">>
    /\ returned.error = "TopologyNotFound"
    /\ BLen(last) > BLen(before)
    /\ target = before

\* ------------------------------------------------------ a Core on its own
\* What an operation on a Core leaves alone.
kvars == <<storage, log, state, phase, borrow, original, rekeying,
           target, inner, before, last, outcome, removed, alive, applied,
           cache, ops, xvars>>

\* fuse of a vertex storage: implemented only for a core whose vertices are
\* unfused.
CoreFuseVertices(s) ==
    /\ core.vertices = Unfused
    /\ core' = FuseVertices(core, s)
    /\ UNCHANGED returned
    /\ UNCHANGED kvars

\* fuse of an arc storage
CoreFuseArcs(s) ==
    /\ core.arcs = Unfused
    /\ core' = FuseArcs(core, s)
    /\ UNCHANGED returned
    /\ UNCHANGED kvars

\* fuse of an edge storage
CoreFuseEdges(s) ==
    /\ core.edges = Unfused
    /\ core' = FuseEdges(core, s)
    /\ UNCHANGED returned
    /\ UNCHANGED kvars

\* fuse of a face storage
CoreFuseFaces(s) ==
    /\ core.faces = Unfused
    /\ core' = FuseFaces(core, s)
    /\ UNCHANGED returned
    /\ UNCHANGED kvars

\* unfuse consumes the core and returns its fields; the next core is built
\* from Core::empty again.
CoreUnfuse ==
    /\ core # CoreEmpty
    /\ returned' = Returned("Ok", Unfuse(core))
    /\ core' = CoreEmpty
    /\ UNCHANGED kvars

NextCore ==
    \/ \E s \in Storages : CoreFuseVertices(s)
    \/ \E s \in Storages : CoreFuseArcs(s)
    \/ \E s \in Storages : CoreFuseEdges(s)
    \/ \E s \in Storages : CoreFuseFaces(s)
    \/ CoreUnfuse

InitCore ==
    /\ storage = SlotNew
    /\ log = <<>>
    /\ state = StateOf(SlotNew)
    /\ phase = "raw"
    /\ borrow = FALSE
    /\ original = SlotNew
    /\ rekeying = {}
    /\ target = SlotNew
    /\ inner = NoMutation
    /\ before = SlotNew
    /\ last = SlotNew
    /\ outcome = "none"
    /\ returned = Returned("none", NoKey)
    /\ removed = {}
    /\ alive = FALSE
    /\ applied = <<>>
    /\ core = CoreEmpty
    /\ cache = NoCache
    /\ ops = 0
    /\ circulator = NoCirculator
    /\ yielded = <<>>
    /\ hash = HashIndexerNew
    /\ lru = LruWithCapacity(0)
    /\ stream = <<>>
    /\ indexed = NoneIndexed

SpecCore == InitCore /\ [][NextCore]_vars

\* C23: each fuse sets the field of its entity to the storage it is given,
\* only while that field is unfused, and leaves the other three fields as
\* they were, so that in whatever order the storages are fused, unfuse
\* returns them as (vertices, arcs, edges, faces); as_storage of a Core and of
\* a Mutation return the storage of the entity asked for.
FuseThenUnfuse ==
    [][/\ \A s \in Storages :
            /\ CoreFuseVertices(s) =>
                    /\ core.vertices = Unfused
                    /\ core' = [core EXCEPT !.vertices = s]
            /\ CoreFuseArcs(s) =>
                    /\ core.arcs = Unfused
                    /\ core' = [core EXCEPT !.arcs = s]
            /\ CoreFuseEdges(s) =>
                    /\ core.edges = Unfused
                    /\ core' = [core EXCEPT !.edges = s]
            /\ CoreFuseFaces(s) =>
                    /\ core.faces = Unfused
                    /\ core' = [core EXCEPT !.faces = s]
       /\ CoreAsStorage(core') = core'
       /\ MutationAsStorage(core') = core'
       /\ CoreUnfuse =>
            returned'.value = <<core.vertices, core.arcs, core.edges, core.faces>>]_vars

\* A complete core was unfused and returned its storages in the order of the
\* entities.
FuseThenUnfuseWitness ==
    /\ core = CoreEmpty
    /\ returned = Returned("Ok", <<2, 1, 1, 2>>)

\* ------------------------------------------- operations of a face view
\* What an operation on a face leaves alone.
gvars == <<storage, log, state, phase, borrow, original, rekeying, removed, core,
           xvars>>

\* No more than MaxOps operations are followed on a graph.
MaxOps == 2

\* No face operation is between its snapshot and its commit.
Idle == ~alive /\ (cache = NoCache \/ cache.replayed) /\ ops < MaxOps

\* The graphs the operations are followed on: every face passes a vertex
\* once and every arc has at most one face.
Manifold(g) ==
    /\ \A p \in g.faces : \A i, j \in 1..Len(p) : p[i] = p[j] => i = j
    /\ \A p, q \in g.faces : p # q => FaceArcs(p) \cap FaceArcs(q) = {}

\* The result of a snapshot: an error is returned to the caller and nothing is
\* kept, a plan is kept as the cache of the operation.
TakeSnapshot(op, snapshot) ==
    /\ IF snapshot.error # "Ok"
       THEN /\ returned' = Returned(snapshot.error, NoKey)
            /\ cache' = NoCache
       ELSE /\ ApplyPlan(target, snapshot.plan).vertices <= MaxGraphVertices
            /\ Cardinality(ApplyPlan(target, snapshot.plan).faces) <= MaxFaces
            /\ Manifold(ApplyPlan(target, snapshot.plan))
            /\ returned' = Returned("none", NoKey)
            /\ cache' = Cache(op, snapshot.plan, target, FALSE)
    /\ ops' = ops + 1
    /\ UNCHANGED <<target, inner, before, last, outcome, alive, applied>>
    /\ UNCHANGED gvars

\* A split whose failing snapshot leaves the graph replaced by the default.
FaceSplitFailsLate(f, source, destination) ==
    /\ Idle
    /\ f \in target.faces
    /\ IF \/ VertexAt(f, source) = None
          \/ VertexAt(f, destination) = None
          \/ FaceSplitSnapshot(target, f, VertexAt(f, source),
                               VertexAt(f, destination)).error # "Ok"
       THEN /\ returned' = Returned("TopologyNotFound", NoKey)
            /\ cache' = NoCache
            /\ target' = GraphDefault
            /\ ops' = ops + 1
            /\ UNCHANGED <<inner, before, last, outcome, alive, applied>>
            /\ UNCHANGED gvars
       ELSE TakeSnapshot("split", FaceSplitSnapshot(target, f, VertexAt(f, source),
                                                    VertexAt(f, destination)))

\* FaceView::split up to its snapshot: the selectors are resolved to vertices
\* of the face, then the snapshot is taken; an error of either is returned.
FaceSplit(f, source, destination) ==
    /\ Idle
    /\ f \in target.faces
    /\ IF VertexAt(f, source) = None \/ VertexAt(f, destination) = None
       THEN TakeSnapshot("split", Snapshot("TopologyNotFound", NoPlan))
       ELSE TakeSnapshot("split", FaceSplitSnapshot(target, f, VertexAt(f, source),
                                                    VertexAt(f, destination)))

\* FaceView::bridge up to its snapshot
FaceBridge(f, destination) ==
    /\ Idle
    /\ f \in target.faces
    /\ TakeSnapshot("bridge", FaceBridgeSnapshot(target, f, destination))

\* FaceView::poke_with up to its snapshot
FacePoke(f) ==
    /\ Idle
    /\ f \in target.faces
    /\ TakeSnapshot("poke", FacePokeSnapshot(target, f))

\* FaceView::extrude up to its snapshot
FaceExtrude(f) ==
    /\ Idle
    /\ f \in target.faces
    /\ TakeSnapshot("extrude", FaceExtrudeSnapshot(target, f))

\* A removal whose cache keeps the face and returns the arc opposite to its
\* leading arc.
FaceRemoveKeepsFace(f) ==
    /\ Idle
    /\ f \in target.faces
    /\ TakeSnapshot("remove", Snapshot("Ok", Plan({}, 0, {}, Opposite(<<f[1], f[2]>>))))

\* FaceView::remove up to its snapshot
FaceRemove(f) ==
    /\ Idle
    /\ f \in target.faces
    /\ TakeSnapshot("remove", FaceRemoveSnapshot(target, f))

\* Mutation::replace(storage, Default::default()) of a face operation
FaceStart ==
    /\ ~alive
    /\ cache # NoCache
    /\ ~cache.replayed
    /\ before' = target
    /\ target' = GraphDefault
    /\ inner' = SomeMutation(target)
    /\ outcome' = "none"
    /\ alive' = TRUE
    /\ applied' = <<>>
    /\ UNCHANGED <<last, returned, cache, ops>>
    /\ UNCHANGED gvars

\* The closure of commit_with: face::split_with_cache and the like replay the
\* cache on the mutation.
FaceReplay ==
    /\ alive
    /\ inner.some
    /\ ~cache.replayed
    /\ inner' = SomeMutation(ApplyPlan(inner.storage, cache.plan))
    /\ returned' = Returned("Ok", cache.plan.arc)
    /\ cache' = [cache EXCEPT !.replayed = TRUE]
    /\ UNCHANGED <<target, before, last, outcome, alive, applied, ops>>
    /\ UNCHANGED gvars

\* A commit that does not write the mutated graph to the target.
FaceCommitKeepsTarget ==
    /\ alive
    /\ inner.some
    /\ cache.replayed
    /\ inner' = [some |-> FALSE, storage |-> GraphDefault]
    /\ last' = inner.storage
    /\ applied' = Append(applied, "commit")
    /\ outcome' = "Ok"
    /\ alive' = FALSE
    /\ UNCHANGED <<target, before, returned, cache, ops>>
    /\ UNCHANGED gvars

\* The commit of commit_with after the closure returned Ok: the Replace is
\* drained, the mutation is committed and the graph is written to the target.
FaceCommit ==
    /\ alive
    /\ inner.some
    /\ cache.replayed
    /\ inner' = [some |-> FALSE, storage |-> GraphDefault]
    /\ last' = inner.storage
    /\ applied' = Append(applied, "commit")
    /\ target' = inner.storage
    /\ outcome' = "Ok"
    /\ alive' = FALSE
    /\ UNCHANGED <<before, returned, cache, ops>>
    /\ UNCHANGED gvars

\* The faces a caller may pass as the destination of a bridge: the faces of
\* the graph, and the face of a key that is not in the graph.
Destinations == target.faces \cup {<<>>}

NextFace ==
    \/ \E f \in target.faces, source \in 0..MaxArity, destination \in 0..MaxArity :
            FaceSplit(f, source, destination)
    \/ \E f \in target.faces : \E destination \in Destinations \ {f} :
            FaceBridge(f, destination)
    \/ \E f \in target.faces : FacePoke(f)
    \/ \E f \in target.faces : FaceExtrude(f)
    \/ \E f \in target.faces : FaceRemove(f)
    \/ FaceStart
    \/ FaceReplay
    \/ FaceCommit

\* The graph holds one polygon or two; no operation has begun.
InitFace ==
    /\ storage = SlotNew
    /\ log = <<>>
    /\ state = StateOf(SlotNew)
    /\ phase = "raw"
    /\ borrow = FALSE
    /\ original = SlotNew
    /\ rekeying = {}
    /\ target \in InitialGraphs
    /\ inner = [some |-> FALSE, storage |-> GraphDefault]
    /\ before = GraphDefault
    /\ last = GraphDefault
    /\ outcome = "none"
    /\ returned = Returned("none", NoKey)
    /\ removed = {}
    /\ alive = FALSE
    /\ applied = <<>>
    /\ core = CoreEmpty
    /\ cache = NoCache
    /\ ops = 0
    /\ circulator = NoCirculator
    /\ yielded = <<>>
    /\ hash = HashIndexerNew
    /\ lru = LruWithCapacity(0)
    /\ stream = <<>>
    /\ indexed = NoneIndexed

SpecFace == InitFace /\ [][NextFace]_vars

\* C24: a split of the one face of a graph, a quadrilateral, between two
\* vertices that are not neighbours leaves a graph of 2 faces and 4 vertices
\* with 2 arcs more than before; the arc it returns and the opposite of that
\* arc each have a face.
SplitQuadrilateral ==
    (/\ ~alive
     /\ outcome = "Ok"
     /\ cache.op = "split"
     /\ before.vertices = 4
     /\ Cardinality(before.faces) = 1
     /\ \A f \in before.faces : Len(f) = 4)
        => /\ Cardinality(target.faces) = 2
           /\ target.vertices = 4
           /\ Cardinality(target.arcs) = Cardinality(before.arcs) + 2
           /\ ArcFace(target, returned.value) # {}
           /\ ArcFace(target, Opposite(returned.value)) # {}

\* The quadrilateral of the test was split from its first vertex to its third.
SplitQuadrilateralWitness ==
    /\ ~alive
    /\ outcome = "Ok"
    /\ cache.op = "split"
    /\ before = Polygon(4)
    /\ returned = Returned("Ok", <<1, 3>>)
    /\ Cardinality(target.faces) = 2

\* C25: the cache of a face operation is taken from the graph while no
\* mutation is active and the graph is as the caller passed it; the mutation
\* begins only with that cache, replays its plan and nothing else, and the
\* committed graph is the graph the cache was taken from with the plan
\* applied; a split or bridge whose snapshot fails returns the error, starts
\* no mutation and leaves the graph as it was.
SnapshotBeforeMutation ==
    [][/\ (cache' # cache /\ cache' # NoCache /\ ~cache'.replayed) =>
            /\ ~alive /\ ~alive'
            /\ target' = target
            /\ cache'.of = target
       /\ (alive' /\ ~alive) =>
            /\ cache # NoCache /\ ~cache.replayed
            /\ cache' = cache
            /\ cache.of = target
            /\ inner'.storage = target
       /\ (alive /\ alive' /\ inner' # inner) =>
            /\ cache.of = before
            /\ cache'.plan = cache.plan
            /\ inner'.storage = ApplyPlan(cache.of, cache.plan)
       /\ (alive /\ ~alive') =>
            /\ outcome' = "Ok"
            /\ applied' = <<"commit">>
            /\ target' = ApplyPlan(before, cache.plan)
       /\ (returned' # returned /\ returned'.error \notin {"none", "Ok"}) =>
            /\ target' = target
            /\ ~alive /\ ~alive'
            /\ inner' = inner
            /\ applied' = applied
            /\ cache' = NoCache]_vars

\* A pentagon was split; a bridge from one of its two faces to the other, of
\* another arity, then returned its error and left the graph as it was.
SnapshotBeforeMutationWitness ==
    /\ returned = Returned("ArityNonUniform", NoKey)
    /\ ~alive
    /\ cache = NoCache
    /\ outcome = "Ok"
    /\ target = ApplyPlan(Polygon(5), FaceSplitSnapshot(Polygon(5), PolygonFace(0, 5), 1, 3).plan)

MaxRemoveVertices == 4

\* The longest Vec<EdgeRemoveCache> of a VertexRemoveCache.
MaxPlans == 2

RemoveVertices == 1..MaxRemoveVertices

\* An EdgeRemoveCache names the edge it removes: a pair of vertices.
RemoveEdges == {e \in RemoveVertices \X RemoveVertices : e[1] < e[2]}

\* VertexRemoveCache { cache: Vec<EdgeRemoveCache> }
VertexRemoveCaches ==
    UNION {[1..n -> RemoveEdges] : n \in 0..MaxPlans}

\* The storage of a mutation: its vertices and its edges.
RemoveStorage(vertices, edges) == [vertices |-> vertices, edges |-> edges]

\* edge::remove: the edge of the plan leaves the storage; an edge that is not
\* there is an error.
EdgeRemove(m, plan) ==
    IF plan \in m.edges
    THEN [error |-> "Ok", storage |-> RemoveStorage(m.vertices, m.edges \ {plan})]
    ELSE [error |-> "TopologyNotFound", storage |-> m]

\* The loop of vertex::remove over the plans, `?` on each, and what follows it:
\* unimplemented!().
RECURSIVE RemoveReplay(_, _, _)
RemoveReplay(m, plans, replayed) ==
    IF plans = <<>>
    THEN [error |-> "unimplemented", storage |-> m, replayed |-> replayed]
    ELSE LET r == EdgeRemove(m, Head(plans))
         IN  IF r.error # "Ok"
             THEN [error |-> r.error, storage |-> r.storage, replayed |-> replayed]
             ELSE RemoveReplay(r.storage, Tail(plans), Append(replayed, Head(plans)))

\* The panic of unimplemented!() ended the program.
Unimplemented == outcome = "unimplemented"

\* VertexRemoveCache::from_vertex: unimplemented!()
FromVertex(vertex) ==
    /\ ~Unimplemented
    /\ inner.some
    /\ vertex \in inner.storage.vertices
    /\ outcome' = "unimplemented"
    /\ UNCHANGED <<target, inner, before, last, returned>>
    /\ UNCHANGED jvars
    /\ UNCHANGED svars

\* vertex::remove(mutation, cache)
VertexRemove(plans) ==
    /\ ~Unimplemented
    /\ inner.some
    /\ LET r == RemoveReplay(inner.storage, plans, <<>>)
       IN  /\ inner' = SomeMutation(r.storage)
           /\ applied' = r.replayed
           /\ outcome' = IF r.error = "unimplemented" THEN "unimplemented" ELSE r.error
           /\ returned' = Returned(r.error, None)
    /\ UNCHANGED <<target, before, last>>
    /\ UNCHANGED jvars
    /\ UNCHANGED <<removed, alive, core, cache, ops, xvars>>

NextVertexRemove ==
    \/ \E vertex \in RemoveVertices : FromVertex(vertex)
    \/ \E plans \in VertexRemoveCaches : VertexRemove(plans)

\* A mutation over a graph of MaxRemoveVertices vertices and some edges
\* between them.
InitVertexRemove ==
    /\ storage = SlotNew
    /\ log = <<>>
    /\ state = StateOf(SlotNew)
    /\ phase = "raw"
    /\ borrow = FALSE
    /\ original = SlotNew
    /\ rekeying = {}
    /\ target = RemoveStorage({}, {})
    /\ inner \in {SomeMutation(RemoveStorage(RemoveVertices, edges)) : edges \in SUBSET RemoveEdges}
    /\ before = RemoveStorage({}, {})
    /\ last = RemoveStorage({}, {})
    /\ outcome = "none"
    /\ returned = Returned("none", None)
    /\ removed = {}
    /\ alive = FALSE
    /\ applied = <<>>
    /\ core = CoreEmpty
    /\ cache = NoCache
    /\ ops = 0
    /\ circulator = NoCirculator
    /\ yielded = <<>>
    /\ hash = HashIndexerNew
    /\ lru = LruWithCapacity(0)
    /\ stream = <<>>
    /\ indexed = NoneIndexed

SpecVertexRemove == InitVertexRemove /\ [][NextVertexRemove]_vars

\* The first plan of a cache whose edge is not there when its turn comes, or
\* one past the last plan.
FirstFailure(m, plans) ==
    LET fails(i) == plans[i] \notin m.edges \/ \E j \in 1..(i - 1) : plans[j] = plans[i]
    IN  IF \E i \in 1..Len(plans) : fails(i)
        THEN CHOOSE i \in 1..Len(plans) : fails(i) /\ \A j \in 1..(i - 1) : ~fails(j)
        ELSE Len(plans) + 1

\* C31: vertex::remove replays the edge-removal plans of its cache in order,
\* stops with the error of the first edge removal that fails, and otherwise
\* removes the vertex and returns it.
VertexRemoveReplays ==
    [][\A plans \in VertexRemoveCaches :
        VertexRemove(plans) =>
            LET first == FirstFailure(inner.storage, plans)
                m == inner.storage
                n == inner'.storage
            IN  /\ applied' = SubSeq(plans, 1, first - 1)
                /\ n.edges = m.edges \ {plans[j] : j \in 1..(first - 1)}
                /\ IF first <= Len(plans)
                   THEN /\ returned'.error = "TopologyNotFound"
                        /\ n.vertices = m.vertices
                   ELSE /\ returned'.error = "Ok"
                        /\ returned'.value \in m.vertices
                        /\ n.vertices = m.vertices \ {returned'.value}]_vars

\* ---------------------------------------------------------------------------
\* Circulation over the arcs of a path: graph/view/face.rs
\* ---------------------------------------------------------------------------

\* No more than MaxYield arcs are taken from a circulator.
MaxYield == 5

\* Option<ArcKey> as next returns it.
Item(key) == Returned(IF key = None THEN "None" ELSE "Some", key)

\* From<FaceView> and From<InteriorPathView> for ArcCirculator: the arc and
\* the breadcrumb are the leading arc of the face or path.
CirculatorFrom(key) ==
    /\ circulator = NoCirculator
    /\ circulator' = Circulator(key, key)
    /\ UNCHANGED <<yielded, hash, lru, stream, indexed>>
    /\ UNCHANGED jvars
    /\ UNCHANGED rvars
    /\ UNCHANGED <<removed, alive, applied, core, cache, ops>>

\* A next that ends without yielding the last arc of the path.
CirculatorNextOfSkipsLast(arcs, c) ==
    IF c.arc = None \/ c.breadcrumb = None
    THEN [circulator |-> c, item |-> None]
    ELSE IF c.breadcrumb = ArcNext(arcs, c.arc)
    THEN [circulator |-> Circulator(c.arc, None), item |-> None]
    ELSE [circulator |-> Circulator(ArcNext(arcs, c.arc), c.breadcrumb), item |-> c.arc]

\* ArcCirculator::next: the circulator after the call and the key returned.
CirculatorNextOf(arcs, c) ==
    IF c.arc = None
    THEN [circulator |-> c, item |-> None]
    ELSE LET next == ArcNext(arcs, c.arc)
         IN  IF c.breadcrumb = None
             THEN [circulator |-> c, item |-> None]
             ELSE IF c.breadcrumb = next
             THEN [circulator |-> Circulator(c.arc, None), item |-> c.arc]
             ELSE [circulator |-> Circulator(next, c.breadcrumb), item |-> c.arc]

\* A call of next on the circulator.
CirculatorNext ==
    /\ circulator # NoCirculator
    /\ Len(yielded) < MaxYield
    /\ LET r == CirculatorNextOf(storage, circulator)
       IN  /\ circulator' = r.circulator
           /\ yielded' = IF r.item = None THEN yielded ELSE Append(yielded, r.item)
           /\ returned' = Item(r.item)
    /\ UNCHANGED <<hash, lru, stream, indexed>>
    /\ UNCHANGED jvars
    /\ UNCHANGED ovars
    /\ UNCHANGED <<removed, alive, applied, core, cache, ops>>

NextCirculator ==
    \/ \E key \in PathArcs : CirculatorFrom(key)
    \/ CirculatorNext

\* A storage of arcs, consistent or not; no circulator yet.
InitCirculator ==
    /\ storage \in ArcStorages
    /\ log = <<>>
    /\ state = StateOf(SlotNew)
    /\ phase = "raw"
    /\ borrow = FALSE
    /\ original = SlotNew
    /\ rekeying = {}
    /\ target = SlotNew
    /\ inner = NoMutation
    /\ before = SlotNew
    /\ last = SlotNew
    /\ outcome = "none"
    /\ returned = Returned("none", None)
    /\ removed = {}
    /\ alive = FALSE
    /\ applied = <<>>
    /\ core = CoreEmpty
    /\ cache = NoCache
    /\ ops = 0
    /\ circulator = NoCirculator
    /\ yielded = <<>>
    /\ hash = HashIndexerNew
    /\ lru = LruWithCapacity(0)
    /\ stream = <<>>
    /\ indexed = NoneIndexed

SpecCirculator == InitCirculator /\ [][NextCirculator]_vars

\* The caller goes on calling next.
SpecCirculatorFair == SpecCirculator /\ WF_vars(CirculatorNext)

\* The arcs from an arc on, in next order, up to the one whose next is the
\* leading arc, is missing or none, or was passed before.
RECURSIVE WalkFrom(_, _, _, _)
WalkFrom(arcs, key, arc, seen) ==
    LET next == IF arcs[arc] \in PathArcs THEN arcs[arc] ELSE None
    IN  IF next = None \/ next = key \/ next \in seen
        THEN <<arc>>
        ELSE <<arc>> \o WalkFrom(arcs, key, next, seen \cup {next})

\* The leading arc of the circulator.
Leading == IF yielded # <<>> THEN yielded[1] ELSE circulator.arc

Walk == WalkFrom(storage, Leading, Leading, {Leading})

\* Following next from the leading arc returns to the leading arc.
Closed == storage[Walk[Len(Walk)]] = Leading

\* Following next from the leading arc meets an arc that is missing from the
\* storage or has no next.
Broken == storage[Walk[Len(Walk)]] \in {Missing, None}

\* The circulator has ended.
Ended == circulator # NoCirculator /\ (circulator.arc = None \/ circulator.breadcrumb = None)

\* C33: when following next from the leading arc returns to the leading arc,
\* or meets an arc that is missing or has no next, the circulator yields the
\* arcs on the way once each, in next order, and then ends; once it has ended
\* every further call of next returns None.
ArcCirculatorYields ==
    /\ []((circulator # NoCirculator /\ (Closed \/ Broken)) =>
            /\ Len(yielded) <= Len(Walk)
            /\ yielded = SubSeq(Walk, 1, Len(yielded))
            /\ Ended <=> yielded = Walk)
    /\ [][Ended => /\ Ended'
                   /\ yielded' = yielded
                   /\ returned' = Item(None)]_vars
    /\ (circulator # NoCirculator /\ (Closed \/ Broken)) ~> Ended

\* The circulator went round a path of three arcs and was called once more.
ArcCirculatorYieldsWitness ==
    /\ storage = <<2, 3, 1>>
    /\ yielded = <<1, 2, 3>>
    /\ Closed
    /\ Ended
    /\ returned = Item(None)

\* ---------------------------------------------------------------------------
\* The distance between two vertices of a path: graph/view/face.rs
\* ---------------------------------------------------------------------------

\* The keys of the vertices of the graph of a path.
MaxPathVertex == 4

PathVertices == 1..MaxPathVertex

\* The interior paths: at least three vertices, none passed twice.
InteriorPaths ==
    {p \in UNION {[1..n -> PathVertices] : n \in 3..MaxPathVertex} :
        \A i, j \in 1..Len(p) : p[i] = p[j] => i = j}

\* Selector::ByKey and Selector::ByIndex
ByKey(key) == [by |-> "key", value |-> key]

ByIndex(index) == [by |-> "index", value |-> index]

\* The selectors a caller may pass: every key, and every index up to one
\* past the greatest arity.
Selectors ==
    {ByKey(key) : key \in PathVertices} \cup {ByIndex(index) : index \in 0..MaxPathVertex}

\* The closure select of distance up to and_then: the index of a selector, or
\* the position of its key among self.vertices(), or TopologyNotFound.
Select(p, selector) ==
    IF selector.by = "index"
    THEN [error |-> "Ok", value |-> selector.value]
    ELSE IF \E i \in 1..Len(p) : p[i] = selector.value
    THEN [error |-> "Ok",
          value |-> (CHOOSE i \in 1..Len(p) :
                        /\ p[i] = selector.value
                        /\ \A j \in 1..(i - 1) : p[j] # selector.value) - 1]
    ELSE [error |-> "TopologyNotFound", value |-> None]

\* A distance that counts forwards only.
DistanceOfForwards(p, source, destination) ==
    IF Select(p, source).error # "Ok" \/ Select(p, destination).error # "Ok"
    THEN [error |-> "TopologyNotFound", value |-> None]
    ELSE IF Select(p, source).value >= Len(p) \/ Select(p, destination).value >= Len(p)
    THEN [error |-> "TopologyNotFound", value |-> None]
    ELSE [error |-> "Ok",
          value |-> (Select(p, destination).value - Select(p, source).value) % Len(p)]

\* InteriorPath::distance
DistanceOf(p, source, destination) ==
    IF Select(p, source).error # "Ok"
    THEN Select(p, source)
    ELSE IF Select(p, source).value >= Len(p)
    THEN [error |-> "TopologyNotFound", value |-> None]
    ELSE IF Select(p, destination).error # "Ok"
    THEN Select(p, destination)
    ELSE Distance(p, Select(p, source).value, Select(p, destination).value)

\* A call of distance on the path, which it reads and leaves as it is; one
\* call is followed.
PathDistance(source, destination) ==
    /\ applied = <<>>
    /\ applied' = <<source, destination>>
    /\ returned' = DistanceOf(target, source, destination)
    /\ UNCHANGED ovars
    /\ UNCHANGED jvars
    /\ UNCHANGED <<removed, alive, core, cache, ops, xvars>>

NextDistance ==
    \E source \in Selectors, destination \in Selectors : PathDistance(source, destination)

\* An interior path; distance was not called yet.
InitDistance ==
    /\ storage = SlotNew
    /\ log = <<>>
    /\ state = StateOf(SlotNew)
    /\ phase = "raw"
    /\ borrow = FALSE
    /\ original = SlotNew
    /\ rekeying = {}
    /\ target \in InteriorPaths
    /\ inner = NoMutation
    /\ before = SlotNew
    /\ last = SlotNew
    /\ outcome = "none"
    /\ returned = Returned("none", None)
    /\ removed = {}
    /\ alive = FALSE
    /\ applied = <<>>
    /\ core = CoreEmpty
    /\ cache = NoCache
    /\ ops = 0
    /\ circulator = NoCirculator
    /\ yielded = <<>>
    /\ hash = HashIndexerNew
    /\ lru = LruWithCapacity(0)
    /\ stream = <<>>
    /\ indexed = NoneIndexed

SpecDistance == InitDistance /\ [][NextDistance]_vars

\* A selector selects a vertex of the path: an index below the arity, or the
\* key of a vertex of the path.
Selects(p, selector) ==
    IF selector.by = "index" THEN selector.value < Len(p)
    ELSE \E i \in 1..Len(p) : p[i] = selector.value

\* The position, from 0, of the vertex a selector selects.
Position(p, selector) ==
    IF selector.by = "index" THEN selector.value
    ELSE (CHOOSE i \in 1..Len(p) : p[i] = selector.value) - 1

\* C34: distance on a path of arity n returns min(|i - j|, n - |i - j|) for
\* the positions i and j of the two vertices: the same in both directions, 0
\* for the same vertex and at most n/2; it returns TopologyNotFound when an
\* index is n or more or a key is not a vertex of the path.
DistanceIsShortest ==
    applied # <<>> =>
        LET source == applied[1]
            destination == applied[2]
            n == Len(target)
        IN  IF Selects(target, source) /\ Selects(target, destination)
            THEN LET i == Position(target, source)
                     j == Position(target, destination)
                     d == IF i >= j THEN i - j ELSE j - i
                 IN  /\ returned.error = "Ok"
                     /\ returned.value = (IF d <= n - d THEN d ELSE n - d)
                     /\ returned = DistanceOf(target, destination, source)
                     /\ target[i + 1] = target[j + 1] => returned.value = 0
                     /\ 2 * returned.value <= n
            ELSE returned = Returned("TopologyNotFound", None)

\* The distances of the test: 2 from the first vertex of a quadrilateral to
\* its third, by key.
DistanceIsShortestWitness ==
    /\ target = <<1, 2, 3, 4>>
    /\ applied = <<ByKey(1), ByKey(3)>>
    /\ returned = Returned("Ok", 2)

\* ---------------------------------------------------------------------------
\* Triangulation of a face: graph/view/face.rs
\* ---------------------------------------------------------------------------

\* The vertices of the graphs whose faces are triangulated.
MaxTriangulated == 9

\* The graphs a face is triangulated in: one polygon, or two.
TriangulatedGraphs ==
    {Polygon(n) : n \in 3..MaxTriangulated}
        \cup {TwoPolygons(pair[1], pair[2]) :
                pair \in {q \in (3..MaxTriangulated) \X (3..MaxTriangulated) :
                            q[1] + q[2] <= MaxTriangulated}}

\* The face triangulate holds at the moment: `face`.
Held == returned.value

\* ArcView::into_face of the arc a split returned, in the graph after it.
IntoFace(g, ab) == IF ArcFace(g, ab) = {} THEN <<>> ELSE CHOOSE p \in ArcFace(g, ab) : TRUE

\* FaceView::triangulate is called on a face: let mut face = self.
Triangulate(f) ==
    /\ outcome \in {"none", "Ok"}
    /\ f \in target.faces
    /\ before' = target
    /\ outcome' = "triangulate"
    /\ returned' = Returned("none", f)
    /\ ops' = 0
    /\ UNCHANGED <<target, inner, last>>
    /\ UNCHANGED jvars
    /\ UNCHANGED <<removed, alive, applied, core, cache, xvars>>

\* A turn of the loop that goes on with the face on the other side of the
\* arc the split returned.
TriangulateSplitOpposite ==
    /\ outcome = "triangulate"
    /\ Len(Held) > 3
    /\ LET snapshot == FaceSplitSnapshot(target, Held, VertexAt(Held, 0), VertexAt(Held, 2))
           g == ApplyPlan(target, snapshot.plan)
       IN  /\ target' = g
           /\ returned' = Returned("none", IntoFace(g, Opposite(snapshot.plan.arc)))
           /\ outcome' = "triangulate"
    /\ ops' = ops + 1
    /\ UNCHANGED <<inner, before, last>>
    /\ UNCHANGED jvars
    /\ UNCHANGED <<removed, alive, applied, core, cache, xvars>>

\* A turn of the loop of triangulate: the face has more than 3 arcs and is
\* split from its vertex 0 to its vertex 2 (the whole split: snapshot,
\* replace, replay and commit); the loop goes on with the face of the arc the
\* split returned. expect_consistent panics on an error of either.
TriangulateSplit ==
    /\ outcome = "triangulate"
    /\ Len(Held) > 3
    /\ LET snapshot == FaceSplitSnapshot(target, Held, VertexAt(Held, 0), VertexAt(Held, 2))
           g == ApplyPlan(target, snapshot.plan)
       IN  IF snapshot.error # "Ok"
           THEN /\ outcome' = "panic"
                /\ UNCHANGED <<target, returned>>
           ELSE IF IntoFace(g, snapshot.plan.arc) = <<>>
           THEN /\ outcome' = "panic"
                /\ target' = g
                /\ UNCHANGED returned
           ELSE /\ target' = g
                /\ returned' = Returned("none", IntoFace(g, snapshot.plan.arc))
                /\ outcome' = "triangulate"
    /\ ops' = ops + 1
    /\ UNCHANGED <<inner, before, last>>
    /\ UNCHANGED jvars
    /\ UNCHANGED <<removed, alive, applied, core, cache, xvars>>

\* The loop of triangulate ends at a face of 3 arcs or fewer, which is
\* returned.
TriangulateReturn ==
    /\ outcome = "triangulate"
    /\ Len(Held) <= 3
    /\ outcome' = "Ok"
    /\ returned' = Returned("Ok", Held)
    /\ UNCHANGED <<target, inner, before, last>>
    /\ UNCHANGED jvars
    /\ UNCHANGED <<removed, alive, applied, core, cache, ops, xvars>>

NextTriangulate ==
    \/ \E f \in target.faces : Triangulate(f)
    \/ TriangulateSplit
    \/ TriangulateReturn

\* A graph of one polygon or two; triangulate was not called yet.
InitTriangulate ==
    /\ storage = SlotNew
    /\ log = <<>>
    /\ state = StateOf(SlotNew)
    /\ phase = "raw"
    /\ borrow = FALSE
    /\ original = SlotNew
    /\ rekeying = {}
    /\ target \in TriangulatedGraphs
    /\ inner = [some |-> FALSE, storage |-> GraphDefault]
    /\ before = GraphDefault
    /\ last = GraphDefault
    /\ outcome = "none"
    /\ returned = Returned("none", NoKey)
    /\ removed = {}
    /\ alive = FALSE
    /\ applied = <<>>
    /\ core = CoreEmpty
    /\ cache = NoCache
    /\ ops = 0
    /\ circulator = NoCirculator
    /\ yielded = <<>>
    /\ hash = HashIndexerNew
    /\ lru = LruWithCapacity(0)
    /\ stream = <<>>
    /\ indexed = NoneIndexed

SpecTriangulate == InitTriangulate /\ [][NextTriangulate]_vars

\* A call of triangulate runs on: its loop is not suspended.
SpecTriangulateFair ==
    SpecTriangulate /\ WF_vars(TriangulateSplit) /\ WF_vars(TriangulateReturn)

\* The face triangulate was called on: the face that left the graph, or the
\* triangle that was returned as it was.
Triangulated ==
    IF before.faces \subseteq target.faces THEN returned.value
    ELSE CHOOSE f \in before.faces : f \notin target.faces

\* C35: triangulate ends for a face of any arity n >= 3: it does nothing when
\* n = 3 and otherwise does n - 3 splits from vertex 0 to vertex 2, which
\* replace the face by n - 2 triangles, leave the number of vertices as it
\* was and add 2 arcs each; the face returned is a triangle.
TriangulateEnds ==
    /\ [](outcome # "panic")
    /\ []((outcome = "triangulate" /\ Len(Held) > 3) =>
            /\ VertexAt(Held, 0) # None
            /\ VertexAt(Held, 2) # None
            /\ Held \in target.faces
            /\ Len(Held) = Len(Triangulated) - ops)
    /\ [](outcome = "Ok" =>
            LET n == Len(Triangulated)
            IN  /\ n >= 3
                /\ ops = n - 3
                /\ n = 3 => target = before
                /\ target.vertices = before.vertices
                /\ Cardinality(target.arcs) = Cardinality(before.arcs) + 2 * (n - 3)
                /\ before.faces \ target.faces = (IF n = 3 THEN {} ELSE {Triangulated})
                /\ Cardinality(target.faces \ (before.faces \ {Triangulated})) = n - 2
                /\ \A f \in target.faces \ (before.faces \ {Triangulated}) : Len(f) = 3
                /\ Len(returned.value) = 3
                /\ returned.value \in target.faces)
    /\ (outcome = "triangulate") ~> (outcome = "Ok")

\* A hexagon was triangulated by 3 splits into 4 triangles.
TriangulateEndsWitness ==
    /\ outcome = "Ok"
    /\ before = Polygon(6)
    /\ ops = 3
    /\ Cardinality(target.faces) = 4
    /\ Len(returned.value) = 3

\* ---------------------------------------------------------------------------
\* Indexing the vertices of a stream: index.rs
\* ---------------------------------------------------------------------------

\* The key of the vertex a run of index_vertices_with takes next: the one of
\* the stream at its position or, past the end of what is known of the
\* stream, any key, which the stream then holds.
Takes(results, key) ==
    /\ Len(results) < MaxInput
    /\ IF Len(results) < Len(stream)
       THEN /\ key = stream[Len(results) + 1]
            /\ stream' = stream
       ELSE stream' = Append(stream, key)

\* A HashIndexer that counts every call, not only the first one of a key.
HashIndexCountsAll(indexer, input, key) ==
    IF \E entry \in indexer.hash : entry[1] = key
    THEN Indexed([hash |-> indexer.hash, n |-> indexer.n + 1],
                 (CHOOSE entry \in indexer.hash : entry[1] = key)[2], None)
    ELSE Indexed([hash |-> indexer.hash \cup {<<key, indexer.n>>}, n |-> indexer.n + 1],
                 indexer.n, input)

\* HashIndexer::index: hash.entry(key).or_insert_with(..); the hash is a set
\* of pairs of a key and its index.
HashIndex(indexer, input, key) ==
    IF \E entry \in indexer.hash : entry[1] = key
    THEN Indexed(indexer, (CHOOSE entry \in indexer.hash : entry[1] = key)[2], None)
    ELSE Indexed([hash |-> indexer.hash \cup {<<key, indexer.n>>}, n |-> indexer.n + 1],
                 indexer.n, input)

\* An LruIndexer whose hit leaves the entry where it is.
LruIndexKeepsPlace(indexer, input, key) ==
    LET entry == LruFind(indexer, key)
    IN  IF entry # <<>>
        THEN Indexed(indexer, entry[2], None)
        ELSE LET kept == IF Len(indexer.lru) >= indexer.capacity
                         THEN VecRemove(indexer.lru, 0)
                         ELSE indexer.lru
             IN  Indexed([indexer EXCEPT !.lru = Append(kept, <<key, indexer.n>>),
                                         !.n = indexer.n + 1],
                         indexer.n, input)

\* An LruIndexer that evicts the entry used last.
LruIndexEvictsNewest(indexer, input, key) ==
    LET entry == LruFind(indexer, key)
    IN  IF entry # <<>>
        THEN Indexed([indexer EXCEPT !.lru = Append(VecRemove(indexer.lru, entry[1]),
                                                    indexer.lru[entry[1] + 1])],
                     entry[2], None)
        ELSE LET kept == IF Len(indexer.lru) >= indexer.capacity
                         THEN VecRemove(indexer.lru, Len(indexer.lru) - 1)
                         ELSE indexer.lru
             IN  Indexed([indexer EXCEPT !.lru = Append(kept, <<key, indexer.n>>),
                                         !.n = indexer.n + 1],
                         indexer.n, input)

\* LruIndexer::index
LruIndex(indexer, input, key) ==
    LET entry == LruFind(indexer, key)
    IN  IF entry # <<>>
        THEN Indexed([indexer EXCEPT !.lru = Append(VecRemove(indexer.lru, entry[1]),
                                                    indexer.lru[entry[1] + 1])],
                     entry[2], None)
        ELSE LET kept == IF Len(indexer.lru) >= indexer.capacity
                         THEN VecRemove(indexer.lru, 0)
                         ELSE indexer.lru
             IN  Indexed([indexer EXCEPT !.lru = Append(kept, <<key, indexer.n>>),
                                         !.n = indexer.n + 1],
                         indexer.n, input)

\* A turn of index_vertices_with over the HashIndexer: the next vertex of the
\* stream (the vertex is its position in the stream) is indexed by its key.
HashIndexVertex(key) ==
    /\ Takes(indexed.hash.results, key)
    /\ LET r == HashIndex(hash, Len(indexed.hash.results) + 1, key)
       IN  /\ hash' = r.indexer
           /\ indexed' = [indexed EXCEPT !.hash = PushIndexed(indexed.hash, r)]
    /\ UNCHANGED <<circulator, yielded, lru>>
    /\ UNCHANGED jvars
    /\ UNCHANGED rvars
    /\ UNCHANGED <<removed, alive, applied, core, cache, ops>>

\* A turn of index_vertices_with over the LruIndexer, on the same stream.
LruIndexVertex(key) ==
    /\ Takes(indexed.lru.results, key)
    /\ LET r == LruIndex(lru, Len(indexed.lru.results) + 1, key)
       IN  /\ lru' = r.indexer
           /\ indexed' = [indexed EXCEPT !.lru = PushIndexed(indexed.lru, r)]
    /\ UNCHANGED <<circulator, yielded, hash>>
    /\ UNCHANGED jvars
    /\ UNCHANGED rvars
    /\ UNCHANGED <<removed, alive, applied, core, cache, ops>>

NextIndex ==
    \/ \E key \in IndexKeys : HashIndexVertex(key)
    \/ \E key \in IndexKeys : LruIndexVertex(key)

\* HashIndexer::new() and LruIndexer::with_capacity(capacity); nothing of the
\* stream was indexed yet.
InitIndex ==
    /\ storage = SlotNew
    /\ log = <<>>
    /\ state = StateOf(SlotNew)
    /\ phase = "raw"
    /\ borrow = FALSE
    /\ original = SlotNew
    /\ rekeying = {}
    /\ target = SlotNew
    /\ inner = NoMutation
    /\ before = SlotNew
    /\ last = SlotNew
    /\ outcome = "none"
    /\ returned = Returned("none", None)
    /\ removed = {}
    /\ alive = FALSE
    /\ applied = <<>>
    /\ core = CoreEmpty
    /\ cache = NoCache
    /\ ops = 0
    /\ circulator = NoCirculator
    /\ yielded = <<>>
    /\ hash = HashIndexerNew
    /\ lru \in {LruWithCapacity(capacity) : capacity \in 0..MaxCapacity}
    /\ stream = <<>>
    /\ indexed = NoneIndexed

SpecIndex == InitIndex /\ [][NextIndex]_vars

\* The vertex at a position of the stream is the first one of its key.
First(i) == \A j \in 1..(i - 1) : stream[j] # stream[i]

\* C36: HashIndexer::index gives equal keys the same index and distinct keys
\* distinct indices, gives the indices 0, 1, 2, ... in the order in which the
\* keys first occur, and returns the vertex only the first time its key is
\* seen; so every index in the index buffer is less than the length of the
\* vertex buffer, and the vertex at a position of the vertex buffer is the
\* one that received that index.
HashIndexerIndexes ==
    LET results == indexed.hash.results
        indices == indexed.hash.indices
        vertices == indexed.hash.vertices
    IN  /\ \A i, j \in 1..Len(results) :
              (stream[i] = stream[j]) <=> (results[i][1] = results[j][1])
        /\ \A i \in 1..Len(results) :
              IF First(i)
              THEN results[i] = <<Cardinality({stream[j] : j \in 1..(i - 1)}), i>>
              ELSE results[i][2] = None
        /\ Len(indices) = Len(results)
        /\ \A i \in 1..Len(indices) :
              /\ indices[i] = results[i][1]
              /\ indices[i] < Len(vertices)
              /\ stream[vertices[indices[i] + 1]] = stream[i]
        /\ \A k \in 1..Len(vertices) : results[vertices[k]] = <<k - 1, vertices[k]>>

\* Two keys were indexed and the first one was seen again.
HashIndexerIndexesWitness ==
    /\ stream = <<2, 1, 2, 3>>
    /\ indexed.hash.results = <<<<0, 1>>, <<1, 2>>, <<0, None>>, <<2, 4>>>>
    /\ indexed.hash.vertices = <<1, 2, 4>>

\* The keys of the entries of the cache of an LruIndexer.
LruKeys(indexer) == {indexer.lru[i][1] : i \in 1..Len(indexer.lru)}

\* C37: an LruIndexer holds at most max(1, capacity) entries, no two of one
\* key; a hit returns the index of the entry and no vertex, and moves the
\* entry to the end, where the entry used last is; a miss returns the next
\* index and the vertex, and takes the first entry, the one used least
\* recently, out of a full cache.
LruIndexerCaches ==
    /\ [](/\ lru.capacity >= 1
          /\ Len(lru.lru) <= lru.capacity
          /\ \A i, j \in 1..Len(lru.lru) : lru.lru[i][1] = lru.lru[j][1] => i = j
          /\ \A i \in 1..Len(indexed.lru.results) : indexed.lru.results[i][1] < lru.n)
    /\ [][lru' # lru \/ indexed'.lru # indexed.lru =>
            LET at == Len(indexed'.lru.results)
                key == stream'[at]
                result == indexed'.lru.results[at]
            IN  /\ at = Len(indexed.lru.results) + 1
                /\ IF key \in LruKeys(lru)
                   THEN LET i == CHOOSE i \in 1..Len(lru.lru) : lru.lru[i][1] = key
                        IN  /\ result = <<lru.lru[i][2], None>>
                            /\ lru'.n = lru.n
                            /\ lru'.lru = SelectSeq(lru.lru, LAMBDA e : e[1] # key)
                                            \o <<lru.lru[i]>>
                   ELSE /\ result = <<lru.n, at>>
                        /\ lru'.n = lru.n + 1
                        /\ lru'.lru =
                            (IF Len(lru.lru) = lru.capacity THEN Tail(lru.lru) ELSE lru.lru)
                                \o <<<<key, lru.n>>>>]_vars

\* A cache of 2 entries was full; a hit moved the older entry to the end and
\* the miss after it took the other one out.
LruIndexerCachesWitness ==
    /\ lru.capacity = 2
    /\ stream = <<1, 2, 1, 3>>
    /\ indexed.lru.results = <<<<0, 1>>, <<1, 2>>, <<0, None>>, <<2, 4>>>>
    /\ lru.lru = <<<<1, 0>>, <<3, 2>>>>

\* Up to a position of the stream, fewer distinct other keys than the cache
\* holds entries lie between any use of a key and its use before.
Adequate(n) ==
    \A i, j \in 1..n :
        (i < j /\ stream[i] = stream[j]) =>
            \/ \E x \in (i + 1)..(j - 1) : stream[x] = stream[i]
            \/ Cardinality({stream[x] : x \in (i + 1)..(j - 1)}) < lru.capacity

\* C38: on a stream in which fewer than capacity distinct other keys lie
\* between two uses of a key that follow each other, the LruIndexer returns
\* what the HashIndexer returns; on any stream, every index it returns is
\* that of a vertex of the key in its vertex buffer.
LruRefinesHash ==
    /\ \A n \in 1..Min(Len(indexed.lru.results), Len(indexed.hash.results)) :
          Adequate(n) => indexed.lru.results[n] = indexed.hash.results[n]
    /\ \A i \in 1..Len(indexed.lru.results) :
          /\ indexed.lru.results[i][1] < Len(indexed.lru.vertices)
          /\ stream[indexed.lru.vertices[indexed.lru.results[i][1] + 1]] = stream[i]

\* Both indexers went over a stream that a cache of 2 entries is enough for,
\* and returned the same.
LruRefinesHashWitness ==
    /\ lru.capacity = 2
    /\ stream = <<1, 2, 3, 2>>
    /\ Adequate(4)
    /\ indexed.lru.results = <<<<0, 1>>, <<1, 2>>, <<2, 3>>, <<1, None>>>>
    /\ indexed.hash.results = indexed.lru.results

TypeOK == phase \in {"raw", "journaled", "committed", "aborted"}
====
